---- MODULE Spec2Model ----
(***************************************************************************)
(* A model of mrfy (src/src/asa.rs, src/src/query.rs): the streaming       *)
(* extraction of negotiated prices from a machine readable file.           *)
(*                                                                         *)
(* The data file is the sequence of JSON events the tokenizer yields.      *)
(* Strings are sequences of one-character strings, so that push_str,       *)
(* make_ascii_uppercase, format! and parse are modelled by what they do.   *)
(* The call stack of the program is the sequence `stack` of frames, each   *)
(* frame holding the locals of one function; one action handles one        *)
(* iteration of the `loop { match parser.parse_next() }` of the function    *)
(* on top of the stack.                                                    *)
(***************************************************************************)
EXTENDS Integers, Sequences, FiniteSets, TLC

VARIABLES
    doc,          \* the events of the data file (data_path), in order
    pos,          \* number of events the current parser has produced
    stack,        \* call stack, bottom first: the frames of the running functions
    query,        \* the Query: [providers, codes]
    out,          \* the bytes written to the output sink `out`
    printed,      \* the bytes written to the process stdout by println!
    diag,         \* the diagnostic messages written to stderr, in order
    unsupported,  \* UNSUPPORTED_KEYS
    status,       \* "running" | "ok" | "nonfatal" | "panic"
    run_no,       \* 1: run on the file, 2: run on the file with the arrays swapped,
                  \* 3: on the file with the keys of one object reversed,
                  \* 4: on the file with one unknown key added, 5: on the file again,
                  \* 6: on the file with one more provider_references element
    out1,         \* the sink of the first run, kept to compare
    status1,      \* the status of the first run, kept to compare
    query1,       \* the Query the first run left, kept to compare
    query0        \* the Query as the input reader built it

vars == <<doc, pos, stack, query, out, printed, diag, unsupported, status,
          run_no, out1, status1, query1, query0>>

----------------------------------------------------------------------------
(* Bounds of the model *)

\* elements of the in_network array
MaxNetworks == 2
\* elements of the provider_references array
MaxProvRefs == 2

----------------------------------------------------------------------------
(* Strings and numbers *)

None == <<>>
Some(x) == <<x>>
IsNone(o) == o = <<>>
IsSome(o) == o # <<>>
Unwrap(o) == o[1]

LowerCase == <<"a","b","c","d","e","f","g","h","i","j","k","l","m",
               "n","o","p","q","r","s","t","u","v","w","x","y","z">>
UpperCase == <<"A","B","C","D","E","F","G","H","I","J","K","L","M",
               "N","O","P","Q","R","S","T","U","V","W","X","Y","Z">>
Digits == <<"0","1","2","3","4","5","6","7","8","9">>

CharToUpper(c) ==
    IF \E i \in 1..26 : LowerCase[i] = c
    THEN UpperCase[CHOOSE i \in 1..26 : LowerCase[i] = c]
    ELSE c

\* str::to_ascii_uppercase / make_ascii_uppercase
to_ascii_uppercase(s) == [i \in 1..Len(s) |-> CharToUpper(s[i])]

\* str::eq_ignore_ascii_case
eq_ignore_ascii_case(a, b) ==
    /\ Len(a) = Len(b)
    /\ \A i \in 1..Len(a) : CharToUpper(a[i]) = CharToUpper(b[i])

IsDigit(c) == \E i \in 1..10 : Digits[i] = c
DigitVal(c) == (CHOOSE i \in 1..10 : Digits[i] = c) - 1

\* the number a string of digits writes
RECURSIVE ParseDigits(_, _)
ParseDigits(s, acc) ==
    IF s = <<>> THEN acc
    ELSE ParseDigits(Tail(s), acc * 10 + DigitVal(Head(s)))

\* u64::MAX, 18446744073709551615, as its digits
U64MaxDigits ==
    <<"1","8","4","4","6","7","4","4","0","7","3","7","0","9","5","5","1","6","1","5">>

\* the digits after the one sign from_str takes for an unsigned integer
AfterPlus(s) == IF Len(s) > 1 /\ Head(s) = "+" THEN Tail(s) ELSE s

RECURSIVE AfterZeros(_)
AfterZeros(ds) == IF ds # <<>> /\ Head(ds) = "0" THEN AfterZeros(Tail(ds)) ELSE ds

\* two digit strings of one length: a writes a number no greater than b does
RECURSIVE DigitsLeq(_, _)
DigitsLeq(a, b) ==
    IF a = <<>> THEN TRUE
    ELSE IF DigitVal(Head(a)) # DigitVal(Head(b)) THEN DigitVal(Head(a)) < DigitVal(Head(b))
    ELSE DigitsLeq(Tail(a), Tail(b))

\* the number the digits write is at most u64::MAX
FitsU64(ds) ==
    \/ Len(AfterZeros(ds)) < Len(U64MaxDigits)
    \/ Len(AfterZeros(ds)) = Len(U64MaxDigits) /\ DigitsLeq(AfterZeros(ds), U64MaxDigits)

\* str::parse::<u64>(): an optional +, then digits that write a number up to
\* u64::MAX; -1 stands for Err
ParseU64(s) ==
    IF /\ AfterPlus(s) # <<>>
       /\ \A i \in 1..Len(AfterPlus(s)) : IsDigit(AfterPlus(s)[i])
       /\ FitsU64(AfterPlus(s))
    THEN ParseDigits(AfterPlus(s), 0)
    ELSE -1

\* format!("{}", n) of a u64
RECURSIVE FormatU64(_)
FormatU64(n) ==
    IF n < 10 THEN <<Digits[n + 1]>>
    ELSE FormatU64(n \div 10) \o <<Digits[(n % 10) + 1]>>

NullStr == <<"n","u","l","l">>
Comma == <<",">>
Newline == <<"\n">>

RECURSIVE Flatten(_)
Flatten(ss) == IF ss = <<>> THEN <<>> ELSE Head(ss) \o Flatten(Tail(ss))

\* the pieces of a text between the occurrences of the character c
Pieces(s, c) ==
    LET ends == {i \in 1..Len(s) : s[i] = c} \cup {Len(s) + 1}
        nth(k) == CHOOSE p \in ends : Cardinality({q \in ends : q < p}) = k - 1
    IN  [k \in 1..Cardinality(ends) |->
            SubSeq(s, (IF k = 1 THEN 1 ELSE nth(k - 1) + 1), nth(k) - 1)]

\* the lines of a byte stream: the text before each "\n", and a last line
\* that has no "\n"
Lines(s) ==
    LET ps == Pieces(s, "\n")
    IN  IF ps[Len(ps)] = <<>> THEN SubSeq(ps, 1, Len(ps) - 1) ELSE ps

\* number of comma-separated fields of a line
FieldCount(line) == 1 + Cardinality({i \in 1..Len(line) : line[i] = ","})

----------------------------------------------------------------------------
(* JSON events (json_event_parser::JsonEvent) *)

Ev(t, k, v) == [type |-> t, key |-> k, val |-> v]
SO == <<Ev("StartObject", "", <<>>)>>
EO == <<Ev("EndObject", "", <<>>)>>
SA == <<Ev("StartArray", "", <<>>)>>
EA == <<Ev("EndArray", "", <<>>)>>
NUL == <<Ev("Null", "", <<>>)>>
K(k) == <<Ev("ObjectKey", k, <<>>)>>
S(v) == <<Ev("String", "", v)>>
N(v) == <<Ev("Number", "", v)>>
EofEvent == Ev("Eof", "", <<>>)

\* parser.parse_next(): the next event, Eof once the document is exhausted
NextEvent == IF pos < Len(doc) THEN doc[pos + 1] ELSE EofEvent
NextPos == IF pos < Len(doc) THEN pos + 1 ELSE pos

----------------------------------------------------------------------------
(* query.rs: Code, Provider, Query *)

\* Code::new
NewCode(c_type, c_value) ==
    [code_type |-> c_type, value |-> c_value, seen |-> FALSE, recorded |-> FALSE]

\* Provider::new
NewProvider(npi_val) ==
    [npi |-> npi_val, group_id |-> None, tin_type |-> None, tin_value |-> None,
     needs_tin |-> FALSE, needs_gid |-> FALSE, recorded |-> FALSE]

\* Query::make_npi_set
make_npi_set(q) == {q.providers[i].npi : i \in 1..Len(q.providers)}

\* Query::make_code_set
make_code_set(q) == {to_ascii_uppercase(q.codes[i].value) : i \in 1..Len(q.codes)}

EmptyMap == [g \in {} |-> <<>>]

\* the pattern of make_ref_map: group_id, tin_value and tin_type all Some
HasAllFields(p) == IsSome(p.group_id) /\ IsSome(p.tin_value) /\ IsSome(p.tin_type)

\* format!("{},{},{}", npi, tin_type, tin_value)
ProviderTuple(p) ==
    FormatU64(p.npi) \o Comma \o Unwrap(p.tin_type) \o Comma \o Unwrap(p.tin_value)

\* a variant of RefMapInsert that puts the text at the head of the list
RefMapInsertFront(m, p) ==
    IF HasAllFields(p)
    THEN IF Unwrap(p.group_id) \notin DOMAIN m
         THEN m @@ (Unwrap(p.group_id) :> <<ProviderTuple(p)>>)
         ELSE [m EXCEPT ![Unwrap(p.group_id)] = <<ProviderTuple(p)>> \o @]
    ELSE m

\* one iteration of the loop of make_ref_map
RefMapInsert(m, p) ==
    IF HasAllFields(p)
    THEN IF Unwrap(p.group_id) \notin DOMAIN m
         THEN m @@ (Unwrap(p.group_id) :> <<ProviderTuple(p)>>)
         ELSE [m EXCEPT ![Unwrap(p.group_id)] = Append(@, ProviderTuple(p))]
    ELSE m

RECURSIVE RefMapFold(_, _, _)
RefMapFold(ps, i, m) ==
    IF i > Len(ps) THEN m ELSE RefMapFold(ps, i + 1, RefMapInsert(m, ps[i]))

\* Query::make_ref_map
make_ref_map(q) == RefMapFold(q.providers, 1, EmptyMap)

\* Query::log_ref
log_ref(q, gid) ==
    [q EXCEPT !.providers =
        [i \in 1..Len(q.providers) |->
            IF IsSome(q.providers[i].group_id) /\ Unwrap(q.providers[i].group_id) = gid
            THEN [q.providers[i] EXCEPT !.recorded = TRUE]
            ELSE q.providers[i]]]

\* a variant of CodeMatches that compares the code type byte for byte
CodeMatchesExactType(code, c, c_type) ==
    \/ eq_ignore_ascii_case(code.value, c) /\ code.code_type = c_type
    \/ eq_ignore_ascii_case(code.value, c) /\ code.code_type = <<"*">>
    \/ code.value = <<"*">> /\ code.code_type = <<"*">>
    \/ code.value = <<"*">> /\ code.code_type = c_type

\* the condition under which log_code marks one Code
CodeMatches(code, c, c_type) ==
    \/ eq_ignore_ascii_case(code.value, c) /\ eq_ignore_ascii_case(code.code_type, c_type)
    \/ eq_ignore_ascii_case(code.value, c) /\ code.code_type = <<"*">>
    \/ code.value = <<"*">> /\ code.code_type = <<"*">>
    \/ code.value = <<"*">> /\ eq_ignore_ascii_case(code.code_type, c_type)

\* a variant of log_code that flips the flag of the Codes it matches
log_code_flip(q, c, c_type) ==
    [q EXCEPT !.codes =
        [i \in 1..Len(q.codes) |->
            IF CodeMatches(q.codes[i], c, c_type)
            THEN [q.codes[i] EXCEPT !.recorded = ~@]
            ELSE q.codes[i]]]

\* Query::log_code
log_code(q, c, c_type) ==
    [q EXCEPT !.codes =
        [i \in 1..Len(q.codes) |->
            IF CodeMatches(q.codes[i], c, c_type)
            THEN [q.codes[i] EXCEPT !.recorded = TRUE]
            ELSE q.codes[i]]]

\* Query::stat_providers
stat_providers(q) == \E i \in 1..Len(q.providers) : IsSome(q.providers[i].group_id)

----------------------------------------------------------------------------
(* asa.rs: Price, Rate, Network *)

\* Price::new
NewPrice ==
    [negotiated_type |-> <<>>, negotiated_rate |-> <<>>, expiration_date |-> <<>>,
     service_code |-> <<>>, billing_class |-> <<>>, billing_code_modifier |-> <<>>]

\* Price::new_null
NewNullPrice ==
    [negotiated_type |-> NullStr, negotiated_rate |-> NullStr, expiration_date |-> NullStr,
     service_code |-> NullStr, billing_class |-> NullStr, billing_code_modifier |-> NullStr]

DefaultIfEmpty(s) == IF s = <<>> THEN NullStr ELSE s

\* Price::push_defaults
PricePushDefaults(p) ==
    [negotiated_type |-> DefaultIfEmpty(p.negotiated_type),
     negotiated_rate |-> DefaultIfEmpty(p.negotiated_rate),
     expiration_date |-> DefaultIfEmpty(p.expiration_date),
     service_code |-> DefaultIfEmpty(p.service_code),
     billing_class |-> DefaultIfEmpty(p.billing_class),
     billing_code_modifier |-> DefaultIfEmpty(p.billing_code_modifier)]

\* Price::print_out
PricePrintOut(p) ==
    p.negotiated_type \o Comma \o p.negotiated_rate \o Comma \o p.expiration_date
      \o Comma \o p.service_code \o Comma \o p.billing_class
      \o Comma \o p.billing_code_modifier

\* Rate::new
NewRate == [provider_references |-> <<>>, negotiated_prices |-> <<>>]

\* Network::new, and the value Network::clear_entries leaves
NewNetwork ==
    [negotiation_arrangement |-> <<>>, name |-> <<>>, billing_code_type |-> <<>>,
     billing_code_type_version |-> <<>>, billing_code |-> <<>>, description |-> <<>>,
     negotiated_rates |-> None]

\* a variant of clear_entries that leaves the String fields as they are
clear_entries_rates_only(n) == [n EXCEPT !.negotiated_rates = None]

\* a variant of clear_entries that leaves negotiated_rates as it is
clear_entries_strings_only(n) ==
    [n EXCEPT !.negotiation_arrangement = <<>>, !.name = <<>>, !.billing_code_type = <<>>,
              !.billing_code_type_version = <<>>, !.billing_code = <<>>,
              !.description = <<>>]

\* Network::clear_entries
clear_entries(n) ==
    [n EXCEPT !.negotiation_arrangement = <<>>, !.name = <<>>, !.billing_code_type = <<>>,
              !.billing_code_type_version = <<>>, !.billing_code = <<>>,
              !.description = <<>>, !.negotiated_rates = None]

\* Network::push_defaults
NetworkPushDefaults(n) ==
    [n EXCEPT !.negotiation_arrangement = DefaultIfEmpty(@),
              !.name = DefaultIfEmpty(@),
              !.billing_code_type = DefaultIfEmpty(@),
              !.billing_code_type_version = DefaultIfEmpty(@),
              !.description = DefaultIfEmpty(@)]

\* Network::print_out
NetworkPrintOut(n) ==
    n.negotiation_arrangement \o Comma \o n.name \o Comma \o n.billing_code_type
      \o Comma \o n.billing_code_type_version \o Comma \o n.billing_code
      \o Comma \o n.description

\* print_header
HeaderLine ==
    <<"n","p","i",",","t","i","n","_","t","y","p","e",",","t","i","n","_","v","a","l","u","e">>
      \o Comma \o <<"g","r","o","u","p","_","i","d">> \o Comma
      \o <<"n","e","g","o","t","i","a","t","i","o","n","_","a","r","r","a","n","g","e","m","e","n","t",",",
           "n","a","m","e",",",
           "b","i","l","l","i","n","g","_","c","o","d","e","_","t","y","p","e",",",
           "b","i","l","l","i","n","g","_","c","o","d","e","_","t","y","p","e","_","v","e","r","s","i","o","n",",",
           "b","i","l","l","i","n","g","_","c","o","d","e",",",
           "d","e","s","c","r","i","p","t","i","o","n">>
      \o Comma
      \o <<"n","e","g","o","t","i","a","t","e","d","_","t","y","p","e",",",
           "n","e","g","o","t","i","a","t","e","d","_","r","a","t","e",",",
           "e","x","p","i","r","a","t","i","o","n","_","d","a","t","e",",",
           "s","e","r","v","i","c","e","_","c","o","d","e",",",
           "b","i","l","l","i","n","g","_","c","l","a","s","s",",",
           "b","i","l","l","i","n","g","_","c","o","d","e","_","m","o","d","i","f","i","e","r">>
      \o Newline

\* print_record, the body of the innermost loop: one row
RecordRow(prov, reference, network, price) ==
    prov \o Comma \o FormatU64(reference) \o Comma \o NetworkPrintOut(network)
      \o Comma \o PricePrintOut(price) \o Newline

\* a variant of PriceLoop that writes the prices last to first
RECURSIVE PriceLoopReversed(_, _, _, _, _)
PriceLoopReversed(prov, reference, network, prices, k) ==
    IF k > Len(prices) THEN <<>>
    ELSE PriceLoopReversed(prov, reference, network, prices, k + 1)
           \o RecordRow(prov, reference, network, prices[k])

\* print_record: for price in rate.negotiated_prices.iter()
RECURSIVE PriceLoop(_, _, _, _, _)
PriceLoop(prov, reference, network, prices, k) ==
    IF k > Len(prices) THEN <<>>
    ELSE RecordRow(prov, reference, network, prices[k])
           \o PriceLoop(prov, reference, network, prices, k + 1)

\* print_record: for prov in ref_map.get(reference).unwrap().iter()
RECURSIVE ProvLoop(_, _, _, _, _)
ProvLoop(provs, j, reference, network, prices) ==
    IF j > Len(provs) THEN <<>>
    ELSE PriceLoop(provs[j], reference, network, prices, 1)
           \o ProvLoop(provs, j + 1, reference, network, prices)

\* the orders in which the elements of a HashSet or the keys of a HashMap can come
KeyOrders(keys) ==
    {o \in [1..Cardinality(keys) -> keys] : \A i, j \in 1..Cardinality(keys) : o[i] = o[j] => i = j}

\* a variant of RefLoop that walks the Ref map, in the order its keys come in,
\* and writes the entries whose key the rate lists
RECURSIVE RefLoopInMapOrder(_, _, _, _, _)
RefLoopInMapOrder(rate, i, network, ref_map, st) ==
    LET listed == SelectSeq(stack[Len(stack)].ref_order,
                            LAMBDA g : \E k \in 1..Len(rate.provider_references) :
                                          rate.provider_references[k] = g)
    IN  IF i > Len(listed) THEN st
        ELSE RefLoopInMapOrder(rate, i + 1, network, ref_map,
                               [st EXCEPT !.query = log_ref(@, listed[i]),
                                          !.out = @ \o ProvLoop(ref_map[listed[i]], 1, listed[i],
                                                                network, rate.negotiated_prices)])

\* print_record: for reference in rate.provider_references.iter(); the state
\* carried is [out, query, panicked]; ref_map.get(reference).unwrap() panics
\* on a reference the map does not hold
RECURSIVE RefLoop(_, _, _, _, _)
RefLoop(rate, i, network, ref_map, st) ==
    IF i > Len(rate.provider_references) \/ st.panicked THEN st
    ELSE LET reference == rate.provider_references[i]
             logged == log_ref(st.query, reference)
         IN  IF reference \notin DOMAIN ref_map
             THEN [st EXCEPT !.query = logged, !.panicked = TRUE]
             ELSE RefLoop(rate, i + 1, network, ref_map,
                          [st EXCEPT !.query = logged,
                                     !.out = @ \o ProvLoop(ref_map[reference], 1, reference,
                                                           network, rate.negotiated_prices)])

\* print_record: for rate in neg_rates.iter()
RECURSIVE RateLoop(_, _, _, _, _)
RateLoop(rates, r, network, ref_map, st) ==
    IF r > Len(rates) \/ st.panicked THEN st
    ELSE RateLoop(rates, r + 1, network, ref_map,
                  RefLoop(rates[r], 1, network, ref_map, st))

\* print_record: the sink and the Query it leaves, and whether it panicked
print_record(network, q, ref_map, o) ==
    LET st == RateLoop(Unwrap(network.negotiated_rates), 1, network, ref_map,
                       [out |-> o, query |-> q, panicked |-> FALSE])
    IN  IF st.panicked THEN st
        ELSE [st EXCEPT !.query = log_code(@, network.billing_code, network.billing_code_type)]


----------------------------------------------------------------------------
(* The call stack *)

Top == stack[Len(stack)]
Below == stack[Len(stack) - 1]
SetTop(f) == [stack EXCEPT ![Len(stack)] = f]
Pop(n) == SubSeq(stack, 1, Len(stack) - n)
Running(fn) == status = "running" /\ stack # <<>> /\ Top.fn = fn

\* a variant of RunFrame in which needs_reset starts as true
RunFrameResetPending ==
    [fn |-> "run", depth |-> 0, meta_key |-> None,
     metadata |-> [reporting_entity_name |-> None, reporting_entity_type |-> None,
                   last_updated_on |-> None, version |-> None, count |-> 0],
     providers_seen |-> FALSE, network_seen |-> FALSE, needs_reset |-> TRUE]

\* the locals of run at its entry
RunFrame ==
    [fn |-> "run", depth |-> 0, meta_key |-> None,
     metadata |-> [reporting_entity_name |-> None, reporting_entity_type |-> None,
                   last_updated_on |-> None, version |-> None, count |-> 0],
     providers_seen |-> FALSE, network_seen |-> FALSE, needs_reset |-> FALSE]

\* the locals of process_provider_refs at its entry
ProviderRefsFrame ==
    [fn |-> "process_provider_refs", non_fatal_err_seen |-> FALSE, pg_id |-> None,
     cb |-> 0, sq |-> 0]

\* the locals of process_provider_groups at its entry
ProviderGroupsFrame(q) ==
    [fn |-> "process_provider_groups", t_type |-> None, t_value |-> None,
     state |-> "Undefined", sq |-> 0, cb |-> 0, npi_set |-> make_npi_set(q)]

\* the locals of process_in_network at its entry; entered tells that the
\* statements before its loop have run, and ref_order is the order in which
\* the HashMap ref_map gives its keys, fixed when the map is made
InNetworkFrame(q) ==
    [fn |-> "process_in_network", entered |-> FALSE, obj_count |-> 0,
     header_written |-> FALSE, network |-> NewNetwork, state |-> "undefined",
     codeset |-> make_code_set(q), ref_map |-> make_ref_map(q), ref_order |-> <<>>,
     sq |-> 0, cb |-> 0]

\* the orders the keys of ref_map can have: any, chosen by the RandomState of
\* the map when process_in_network makes it, and kept from then on
RefOrders(f) == IF f.entered THEN {f.ref_order} ELSE KeyOrders(DOMAIN f.ref_map)

\* what process_in_network writes with eprintln! before its loop, with
\* APPRX_TOTAL_OBJS = 148400 and INCR = 100
InNetworkEntryDiag(entered) ==
    IF entered THEN <<>>
    ELSE <<<<"Progress bar based on estimate of 148400 total objects">>,
           <<"Progress bar will update after every 100 objects">>>>

\* a variant of NegotiatedRatesFrame that counts the array as already opened
NegotiatedRatesFrameOpened(ref_map) ==
    [fn |-> "process_negotiated_rates", rates |-> <<>>, rate |-> NewRate,
     cb |-> 0, sq |-> 1, ref_map |-> ref_map]

\* the locals of process_negotiated_rates at its entry
NegotiatedRatesFrame(ref_map) ==
    [fn |-> "process_negotiated_rates", rates |-> <<>>, rate |-> NewRate,
     cb |-> 0, sq |-> 0, ref_map |-> ref_map]

\* the locals of process_negotiated_prices at its entry
NegotiatedPricesFrame ==
    [fn |-> "process_negotiated_prices", state |-> "undefined", sq |-> 0, cb |-> 0,
     prices |-> <<>>, price |-> NewPrice]

\* bypass_key; cb and sq are the counters it hands to ff_to_next_obj
BypassKeyFrame == [fn |-> "bypass_key", cb |-> 0, sq |-> 0]

\* ff_to_next_obj works on the cb and sq of its caller, the frame below it;
\* site is the place of the call
FfFrame(site) == [fn |-> "ff_to_next_obj", site |-> site]

\* a variant of SkipArrayFrame that takes the array as not yet opened
SkipArrayFrameUnopened(sq, site) == [fn |-> "skip_array", sq |-> 0, site |-> site]

\* skip_array(parser, sq)
SkipArrayFrame(sq, site) == [fn |-> "skip_array", sq |-> sq, site |-> site]

----------------------------------------------------------------------------
(* What one loop iteration leaves *)

Frozen == UNCHANGED <<doc, run_no, out1, status1, query1, query0>>

\* an iteration that read one event
Step(stk, q, o, dg, st) ==
    /\ pos' = NextPos
    /\ stack' = stk
    /\ query' = q
    /\ out' = o
    /\ diag' = dg
    /\ status' = st
    /\ UNCHANGED <<unsupported, printed>>
    /\ Frozen

Cont(stk) == Step(stk, query, out, diag, status)

\* panic!, expect on Err, unwrap on None
Panic == Step(stack, query, out, diag, "panic")

\* a variant of Unsupported that reports the key every time
UnsupportedEveryTime(dg, stk, key, where) ==
    /\ pos' = NextPos
    /\ stack' = Append(stk, BypassKeyFrame)
    /\ diag' = Append(dg, <<"Unsupported key", key, where>>)
    /\ unsupported' = unsupported \cup {key}
    /\ UNCHANGED <<query, out, printed, status>>
    /\ Frozen

\* UNSUPPORTED_KEYS.with(...) and bypass_key(parser): the key is reported the first
\* time, after what the function has written to stderr so far (dg), inserted,
\* and its value bypassed
Unsupported(dg, stk, key, where) ==
    /\ pos' = NextPos
    /\ stack' = Append(stk, BypassKeyFrame)
    /\ diag' = IF key \in unsupported THEN dg
               ELSE Append(dg, <<"Unsupported key", key, where>>)
    /\ unsupported' = unsupported \cup {key}
    /\ UNCHANGED <<query, out, printed, status>>
    /\ Frozen

----------------------------------------------------------------------------
(* Skip utilities *)

\* the caller's frame after ff_to_next_obj returned to it
AfterFf(site, caller) ==
    IF site = "billing_code" THEN [caller EXCEPT !.state = "undefined"] ELSE caller

\* ff_to_next_obj: one iteration of its loop. cb and sq are u64: a decrement of 0
\* panics in a debug build and wraps in a release build, where the wrapped value
\* is kept as its representative below zero
ff_to_next_obj ==
    /\ Running("ff_to_next_obj")
    /\ LET e == NextEvent
           c == Below
           under == [stack EXCEPT ![Len(stack) - 1] = c]
           With(f) == [stack EXCEPT ![Len(stack) - 1] = f]
       IN  CASE e.type = "StartObject" -> Cont(With([c EXCEPT !.cb = @ + 1]))
             [] e.type = "EndObject" ->
                  \E build \in (IF c.cb = 0 THEN {"debug", "release"} ELSE {"release"}) :
                     IF build = "debug" THEN Panic
                     ELSE IF c.cb - 1 = 0
                          THEN IF Top.site = "bypass_key"
                               THEN Cont(Pop(2))
                               ELSE Cont(Append(Pop(2),
                                                AfterFf(Top.site, [c EXCEPT !.cb = 0])))
                          ELSE Cont(With([c EXCEPT !.cb = @ - 1]))
             [] e.type = "StartArray" -> Cont(With([c EXCEPT !.sq = @ + 1]))
             [] e.type = "EndArray" ->
                  \E build \in (IF c.sq = 0 THEN {"debug", "release"} ELSE {"release"}) :
                     IF build = "debug" THEN Panic
                     ELSE Cont(With([c EXCEPT !.sq = @ - 1]))
             [] e.type = "Eof" -> Panic
             [] OTHER -> Cont(stack)

\* a variant of AfterSkip that leaves the reset flag as it was
AfterSkipNoReset(f) == f

\* run after skip_array has returned: needs_reset = true
AfterSkip(f) == [f EXCEPT !.needs_reset = TRUE]

\* skip_array: one iteration of its loop; Eof falls under `_ => {}`
skip_array ==
    /\ Running("skip_array")
    /\ LET e == NextEvent
           f == Top
       IN  CASE e.type = "StartArray" -> Cont(SetTop([f EXCEPT !.sq = @ + 1]))
             [] e.type = "EndArray" ->
                  \E build \in (IF f.sq = 0 THEN {"debug", "release"} ELSE {"release"}) :
                     IF build = "debug" THEN Panic
                     ELSE IF f.sq - 1 = 0
                          THEN IF f.site = "bypass_key"
                               THEN Cont(Pop(2))
                               \* run: needs_reset = true; continue
                               ELSE Cont(Append(Pop(2), AfterSkip(Below)))
                          ELSE Cont(SetTop([f EXCEPT !.sq = @ - 1]))
             [] OTHER -> Cont(stack)

\* bypass_key: reads the first event of the value
bypass_key ==
    /\ Running("bypass_key")
    /\ LET e == NextEvent
           f == Top
       IN  CASE e.type = "StartObject" ->
                  Cont(Append(SetTop([f EXCEPT !.cb = 1, !.sq = 0]), FfFrame("bypass_key")))
             [] e.type = "StartArray" ->
                  Cont(Append(stack, SkipArrayFrame(1, "bypass_key")))
             [] e.type = "Eof" -> Panic
             [] e.type = "EndArray" -> Panic
             [] OTHER -> Cont(Pop(1))


----------------------------------------------------------------------------
(* process_negotiated_prices *)

PriceKeys == {"negotiated_type", "negotiated_rate", "expiration_date", "service_code",
              "billing_class", "billing_code_modifier"}

\* JsonEvent::String(s) in process_negotiated_prices: the field selected by state
\* gets s appended, service_code followed by a space
PriceOnString(price, state, s) ==
    IF state = "service_code"
    THEN [price EXCEPT !.service_code = @ \o s \o <<" ">>]
    ELSE [price EXCEPT ![state] = @ \o s]

\* JsonEvent::Number(num) in process_negotiated_prices
PriceOnNumber(price, state, num) ==
    [price EXCEPT !.negotiated_rate = @ \o num]

\* a variant of PricesResult that returns the list as collected
PricesResultAsCollected(prices) == prices

\* the value process_negotiated_prices returns
PricesResult(prices) == IF Len(prices) = 0 THEN <<NewNullPrice>> ELSE prices

\* process_negotiated_rates after process_negotiated_prices returned
AfterPrices(caller, prices) == [caller EXCEPT !.rate.negotiated_prices = prices]

\* one iteration of the loop of process_negotiated_prices; Eof falls under `_ => {}`
process_negotiated_prices ==
    /\ Running("process_negotiated_prices")
    /\ LET e == NextEvent
           f == Top
       IN  CASE e.type = "StartObject" -> Cont(SetTop([f EXCEPT !.cb = @ + 1]))
             [] e.type = "EndObject" ->
                  IF f.cb - 1 = 0
                  THEN Cont(SetTop([f EXCEPT !.cb = 0,
                                             !.prices = Append(@, PricePushDefaults(f.price)),
                                             !.price = NewPrice]))
                  ELSE Cont(SetTop([f EXCEPT !.cb = @ - 1]))
             [] e.type = "StartArray" -> Cont(SetTop([f EXCEPT !.sq = @ + 1]))
             [] e.type = "EndArray" ->
                  IF f.sq - 1 = 0
                  THEN Cont(Append(Pop(2), AfterPrices(Below, PricesResult(f.prices))))
                  ELSE Cont(SetTop([f EXCEPT !.sq = @ - 1]))
             [] e.type = "ObjectKey" ->
                  IF e.key \in PriceKeys
                  THEN Cont(SetTop([f EXCEPT !.state = e.key]))
                  ELSE Unsupported(diag, stack, e.key, "Price")
             [] e.type = "String" ->
                  IF f.state = "undefined" THEN Panic
                  ELSE Cont(SetTop([f EXCEPT !.price = PriceOnString(@, f.state, e.val)]))
             [] e.type = "Number" ->
                  Cont(SetTop([f EXCEPT !.price = PriceOnNumber(@, f.state, e.val)]))
             [] OTHER -> Cont(stack)

----------------------------------------------------------------------------
(* process_negotiated_rates *)

\* a variant of RateOnReference that keeps every reference
RateOnReferenceKeepAll(rate, ref_map, ref_num) ==
    [rate EXCEPT !.provider_references = Append(@, ref_num)]

\* JsonEvent::Number(num) in process_negotiated_rates, for a number that parsed
RateOnReference(rate, ref_map, ref_num) ==
    IF ref_num \in DOMAIN ref_map
    THEN [rate EXCEPT !.provider_references = Append(@, ref_num)]
    ELSE rate

\* JsonEvent::EndObject with cb == 0 in process_negotiated_rates
RatesOnEndOfRate(rates, rate) ==
    IF Len(rate.provider_references) # 0 THEN Append(rates, rate) ELSE rates

\* the value process_negotiated_rates returns
RatesResult(rates) == IF Len(rates) = 0 THEN None ELSE Some(rates)

\* one iteration of the loop of process_negotiated_rates; on its return
\* process_in_network keeps the rates, or clears the Network and fast-forwards
process_negotiated_rates ==
    /\ Running("process_negotiated_rates")
    /\ LET e == NextEvent
           f == Top
           caller == Below
       IN  CASE e.type = "StartObject" -> Cont(SetTop([f EXCEPT !.cb = @ + 1]))
             [] e.type = "EndObject" ->
                  \E build \in (IF f.cb = 0 THEN {"debug", "release"} ELSE {"release"}) :
                     IF build = "debug" THEN Panic
                     ELSE IF f.cb - 1 = 0
                          THEN Cont(SetTop([f EXCEPT !.cb = 0,
                                                     !.rates = RatesOnEndOfRate(@, f.rate),
                                                     !.rate = NewRate]))
                          ELSE Cont(SetTop([f EXCEPT !.cb = @ - 1]))
             [] e.type = "StartArray" -> Cont(SetTop([f EXCEPT !.sq = @ + 1]))
             [] e.type = "EndArray" ->
                  \E build \in (IF f.sq = 0 THEN {"debug", "release"} ELSE {"release"}) :
                     IF build = "debug" THEN Panic
                     ELSE IF f.sq - 1 = 0
                          THEN IF IsSome(RatesResult(f.rates))
                               THEN Cont(Append(Pop(2),
                                     [caller EXCEPT !.network.negotiated_rates = RatesResult(f.rates)]))
                               ELSE Cont(Append(Append(Pop(2),
                                     [caller EXCEPT !.network = clear_entries(@)]), FfFrame("negotiated_rates")))
                          ELSE IF Len(f.rate.provider_references) = 0
                               THEN Cont(Append(SetTop([f EXCEPT !.sq = @ - 1]),
                                                FfFrame("provider_references")))
                               ELSE Cont(SetTop([f EXCEPT !.sq = @ - 1]))
             [] e.type = "ObjectKey" ->
                  IF e.key = "provider_references" THEN Cont(stack)
                  ELSE IF e.key = "negotiated_prices"
                       THEN Cont(Append(stack, NegotiatedPricesFrame))
                       ELSE Unsupported(diag, stack, e.key, "negotiated_rates")
             [] e.type = "Number" ->
                  IF ParseU64(e.val) < 0 THEN Panic
                  ELSE Cont(SetTop([f EXCEPT !.rate =
                                       RateOnReference(@, f.ref_map, ParseU64(e.val))]))
             [] e.type = "Eof" -> Panic
             [] OTHER -> Cont(stack)

----------------------------------------------------------------------------
(* process_in_network *)

NetworkKeys == {"negotiation_arrangement", "name", "billing_code_type",
                "billing_code_type_version", "billing_code", "description"}

\* a variant of CodeInSet with the test of the wildcard negated
CodeInSetSlip(codeset, code) == code \in codeset \/ <<"*">> \notin codeset

\* the filter of process_in_network on a billing code already in upper case
CodeInSet(codeset, code) == code \in codeset \/ <<"*">> \in codeset

\* JsonEvent::EndObject in process_in_network: whether the element is written
ElementIsWritten(cb, network) ==
    cb = 0 /\ network.billing_code # <<>> /\ IsSome(network.negotiated_rates)

\* the sink after the lazily written header
WithHeader(header_written, o) == IF header_written THEN o ELSE o \o HeaderLine

\* one iteration of the loop of process_in_network, the first one with the
\* statements before the loop; Eof falls under `_ => {}`
process_in_network ==
    /\ Running("process_in_network")
    /\ \E order \in RefOrders(Top) :
       LET e == NextEvent
           f == [Top EXCEPT !.entered = TRUE, !.ref_order = order]
           dg == diag \o InNetworkEntryDiag(Top.entered)
           Go(stk) == Step(stk, query, out, dg, status)
           Fail == Step(SetTop(f), query, out, dg, "panic")
       IN  CASE e.type = "StartObject" -> Go(SetTop([f EXCEPT !.cb = @ + 1]))
             [] e.type = "EndObject" ->
                  \E build \in (IF f.cb = 0 THEN {"debug", "release"} ELSE {"release"}) :
                     IF build = "debug" THEN Fail
                     ELSE IF ElementIsWritten(f.cb - 1, f.network)
                          THEN LET pr == print_record(NetworkPushDefaults(f.network), query,
                                                      f.ref_map, WithHeader(f.header_written, out))
                               IN  IF pr.panicked
                                   THEN Step(SetTop([f EXCEPT !.cb = @ - 1, !.header_written = TRUE]),
                                             pr.query, pr.out, dg, "panic")
                                   ELSE Step(SetTop([f EXCEPT !.cb = @ - 1, !.header_written = TRUE,
                                                              !.network = clear_entries(@)]),
                                             pr.query, pr.out, dg, status)
                          ELSE Go(SetTop([f EXCEPT !.cb = @ - 1, !.network = clear_entries(@)]))
             [] e.type = "StartArray" -> Go(SetTop([f EXCEPT !.sq = @ + 1]))
             [] e.type = "EndArray" ->
                  \E build \in (IF f.sq = 0 THEN {"debug", "release"} ELSE {"release"}) :
                     IF build = "debug" THEN Fail
                     ELSE IF f.sq - 1 = 0
                          THEN Go(Pop(1))
                          ELSE Go(SetTop([f EXCEPT !.sq = @ - 1]))
             [] e.type = "ObjectKey" ->
                  IF e.key \in NetworkKeys
                  THEN Go(SetTop([f EXCEPT !.state = e.key]))
                  ELSE IF e.key = "negotiated_rates"
                       THEN Go(Append(SetTop([f EXCEPT !.state = "undefined"]),
                                      NegotiatedRatesFrame(f.ref_map)))
                       ELSE Unsupported(dg, SetTop(f), e.key, "Network")
             [] e.type = "String" ->
                  IF f.state = "undefined" THEN Fail
                  ELSE IF f.state = "billing_code"
                       THEN LET code == to_ascii_uppercase(f.network.billing_code \o e.val)
                            IN  IF ~CodeInSet(f.codeset, code)
                                THEN Go(Append(SetTop([f EXCEPT !.network = clear_entries(@),
                                                                !.obj_count = @ + 1]),
                                               FfFrame("billing_code")))
                                ELSE Go(SetTop([f EXCEPT !.network.billing_code = code,
                                                         !.obj_count = @ + 1,
                                                         !.state = "undefined"]))
                       ELSE Go(SetTop([f EXCEPT !.network[f.state] = @ \o e.val,
                                                !.state = "undefined"]))
             [] OTHER -> Go(SetTop(f))


----------------------------------------------------------------------------
(* process_provider_groups *)

\* for i in (0..providers.len()).rev(): the last record with this npi
LastIndexOf(providers, npi) ==
    CHOOSE i \in 1..Len(providers) :
        /\ providers[i].npi = npi
        /\ \A j \in (i + 1)..Len(providers) : providers[j].npi # npi

\* the match on providers[i]: Provider { group_id: None, tin_value: None, .. }
SlotIsFree(p) == IsNone(p.group_id) /\ IsNone(p.tin_value)

\* a variant of MatchNpi that puts the new Provider at the head of the list
MatchNpiFront(providers, curr_npi) ==
    IF \A i \in 1..Len(providers) : providers[i].npi # curr_npi
    THEN providers
    ELSE LET i == LastIndexOf(providers, curr_npi)
         IN  IF SlotIsFree(providers[i])
             THEN [providers EXCEPT ![i].needs_gid = TRUE, ![i].needs_tin = TRUE]
             ELSE <<[NewProvider(curr_npi) EXCEPT !.needs_gid = TRUE, !.needs_tin = TRUE]>>
                     \o providers

\* JsonEvent::Number in process_provider_groups, for an npi of the npi set
MatchNpi(providers, curr_npi) ==
    IF \A i \in 1..Len(providers) : providers[i].npi # curr_npi
    THEN providers
    ELSE LET i == LastIndexOf(providers, curr_npi)
         IN  IF SlotIsFree(providers[i])
             THEN [providers EXCEPT ![i].needs_gid = TRUE, ![i].needs_tin = TRUE]
             ELSE Append(providers,
                         [NewProvider(curr_npi) EXCEPT !.needs_gid = TRUE, !.needs_tin = TRUE])

\* a variant of TinOrNull that leaves a missing field missing
TinAsGiven(t) == t

\* unwrap_or(String::from("null")) on the scratch pair
TinOrNull(t) == IF IsNone(t) THEN Some(NullStr) ELSE t

\* JsonEvent::EndObject with cb == 0 in process_provider_groups
FillTin(providers, t_type, t_value) ==
    [i \in 1..Len(providers) |->
        IF providers[i].needs_tin
        THEN [providers[i] EXCEPT !.tin_value = TinOrNull(t_value),
                                  !.tin_type = TinOrNull(t_type),
                                  !.needs_tin = FALSE]
        ELSE providers[i]]

\* one iteration of the loop of process_provider_groups
process_provider_groups ==
    /\ Running("process_provider_groups")
    /\ LET e == NextEvent
           f == Top
       IN  CASE e.type = "StartObject" -> Cont(SetTop([f EXCEPT !.cb = @ + 1]))
             [] e.type = "EndObject" ->
                  IF f.cb - 1 = 0
                  THEN Step(SetTop([f EXCEPT !.cb = 0, !.t_type = None, !.t_value = None]),
                            [query EXCEPT !.providers = FillTin(@, f.t_type, f.t_value)],
                            out, diag, status)
                  ELSE Cont(SetTop([f EXCEPT !.cb = @ - 1]))
             [] e.type = "StartArray" -> Cont(SetTop([f EXCEPT !.sq = @ + 1]))
             [] e.type = "EndArray" ->
                  IF f.sq - 1 = 0 THEN Cont(Pop(1))
                  ELSE Cont(SetTop([f EXCEPT !.sq = @ - 1]))
             [] e.type = "ObjectKey" ->
                  IF e.key = "npi" THEN Cont(SetTop([f EXCEPT !.state = "Npi"]))
                  ELSE IF e.key = "type" THEN Cont(SetTop([f EXCEPT !.state = "Ttype"]))
                  ELSE IF e.key = "value" THEN Cont(SetTop([f EXCEPT !.state = "Value"]))
                  ELSE IF e.key = "tin" THEN Cont(stack)
                  ELSE Unsupported(diag, stack, e.key, "provider_groups")
             [] e.type = "String" ->
                  IF f.state = "Ttype"
                  THEN Cont(SetTop([f EXCEPT !.t_type = Some(e.val), !.state = "Undefined"]))
                  ELSE IF f.state = "Value"
                       THEN Cont(SetTop([f EXCEPT !.t_value = Some(e.val), !.state = "Undefined"]))
                       ELSE Panic
             [] e.type = "Number" ->
                  IF ParseU64(e.val) < 0 \/ f.state # "Npi" THEN Panic
                  ELSE IF ParseU64(e.val) \notin f.npi_set THEN Cont(stack)
                  ELSE Step(stack, [query EXCEPT !.providers = MatchNpi(@, ParseU64(e.val))],
                            out, diag, status)
             [] OTHER -> Cont(stack)

----------------------------------------------------------------------------
(* process_provider_refs *)

\* JsonEvent::EndObject with cb == 0 in process_provider_refs
FillGid(providers, pg_id) ==
    [i \in 1..Len(providers) |->
        IF providers[i].needs_gid
        THEN [providers[i] EXCEPT !.group_id = pg_id, !.needs_gid = FALSE]
        ELSE providers[i]]

\* run after process_provider_refs(&mut parser, query)? returned Ok: the early exit
AfterProviderRefsOk(q) == IF stat_providers(q) THEN "running" ELSE "ok"

\* run on the value of process_provider_refs(&mut parser, query)?
AfterProviderRefs(non_fatal_err_seen, q) ==
    IF non_fatal_err_seen THEN "nonfatal" ELSE AfterProviderRefsOk(q)

\* one iteration of the loop of process_provider_refs; on its return run
\* propagates the error, or exits early when no Provider has a group id
process_provider_refs ==
    /\ Running("process_provider_refs")
    /\ LET e == NextEvent
           f == Top
       IN  CASE e.type = "StartObject" -> Cont(SetTop([f EXCEPT !.cb = @ + 1]))
             [] e.type = "EndObject" ->
                  IF f.cb - 1 = 0
                  THEN Step(SetTop([f EXCEPT !.cb = 0,
                                             !.non_fatal_err_seen = @ \/ IsNone(f.pg_id)]),
                            [query EXCEPT !.providers = FillGid(@, f.pg_id)],
                            out,
                            IF IsNone(f.pg_id)
                            THEN Append(diag, <<"Error: provider group id not specified in datafile!">>)
                            ELSE diag,
                            status)
                  ELSE Cont(SetTop([f EXCEPT !.cb = @ - 1]))
             [] e.type = "StartArray" -> Cont(SetTop([f EXCEPT !.sq = @ + 1]))
             [] e.type = "EndArray" ->
                  IF f.sq - 1 = 0
                  THEN LET st == AfterProviderRefs(f.non_fatal_err_seen, query)
                       IN  Step(Pop(1), query, out,
                                IF st = "ok"
                                THEN diag \o <<<<"No providers from query found in file.">>,
                                               <<"Exiting early...">>>>
                                ELSE diag,
                                st)
                  ELSE Cont(SetTop([f EXCEPT !.sq = @ - 1]))
             [] e.type = "ObjectKey" ->
                  IF e.key = "provider_group_id" THEN Cont(stack)
                  ELSE IF e.key = "provider_groups"
                       THEN Cont(Append(stack, ProviderGroupsFrame(query)))
                       ELSE Unsupported(diag, stack, e.key, "provider_references")
             [] e.type = "Number" ->
                  IF ParseU64(e.val) < 0 THEN Panic
                  ELSE Cont(SetTop([f EXCEPT !.pg_id = Some(ParseU64(e.val))]))
             [] OTHER -> Cont(stack)

----------------------------------------------------------------------------
(* run *)

MetaKeys == {"reporting_entity_name", "reporting_entity_type", "last_updated_on", "version"}

\* Meta::add; count is a u8, and the value here is the one a release build
\* keeps when the addition overflows
MetaAdd(metadata, key, value) ==
    [metadata EXCEPT ![key] = Some(value), !.count = (@ + 1) % 256]

\* self.count += 1 on a u8: the builds that can make the step; a debug build
\* panics on the overflow
MetaAddBuilds(metadata) == IF metadata.count = 255 THEN {"debug", "release"} ELSE {"release"}

\* Meta::e_print, called by Meta::add when count == num_fields
MetaNumFields == 4
MetaDiag(metadata) ==
    IF metadata.count = MetaNumFields THEN <<<<"metadata">>>> ELSE <<>>

\* println!("Found the following unsupported keys")
UnsupportedNotice ==
    <<"F","o","u","n","d"," ","t","h","e"," ","f","o","l","l","o","w","i","n","g"," ",
      "u","n","s","u","p","p","o","r","t","e","d"," ","k","e","y","s">> \o Newline

\* what run writes with println! after its loop
AfterLoopPrinted(keys) == IF keys # {} THEN UnsupportedNotice ELSE <<>>

\* what run writes with eprintln! after its loop: the unsupported keys, in an
\* order of the HashSet
AfterLoopDiag(order) == [i \in 1..Len(order) |-> <<order[i]>>]

\* what run writes with eprintln! at the end of an object before it panics
MissingDiag(f) ==
    (IF ~f.providers_seen
     THEN <<<<"FATAL ERROR: provider_references not found in file.">>>> ELSE <<>>)
    \o (IF ~f.network_seen
        THEN <<<<"FATAL ERROR: in_network not found in file.">>>> ELSE <<>>)

\* a variant of InNetworkCallee that never skips the array
InNetworkCalleeNoSkip(providers_seen, q) == InNetworkFrame(q)

\* the key in_network in run: the array is skipped when provider_references has
\* not been seen, and handed to process_in_network otherwise
InNetworkCallee(providers_seen, q) ==
    IF ~providers_seen THEN SkipArrayFrame(0, "run") ELSE InNetworkFrame(q)

\* a variant of ArraysMissing that asks for both arrays to be missing
ArraysMissingBoth(f) == ~f.providers_seen /\ ~f.network_seen

\* providers_seen == false || network_seen == false, at the end of an object
ArraysMissing(f) == ~f.providers_seen \/ ~f.network_seen

\* one iteration of the loop of run
run ==
    /\ Running("run")
    /\ LET e == NextEvent
           f == Top
       IN  CASE e.type = "StartObject" -> Cont(SetTop([f EXCEPT !.depth = @ + 1]))
             [] e.type = "EndObject" ->
                  IF ArraysMissing(f)
                  THEN Step(stack, query, out, diag \o MissingDiag(f), "panic")
                  ELSE IF f.depth - 1 = 0 /\ ~f.needs_reset
                       \* break: the loop is left and run returns Ok(())
                       THEN /\ pos' = NextPos
                            /\ stack' = SetTop([f EXCEPT !.depth = 0])
                            /\ printed' = printed \o AfterLoopPrinted(unsupported)
                            /\ \E order \in KeyOrders(unsupported) :
                                  diag' = diag \o AfterLoopDiag(order)
                            /\ status' = "ok"
                            /\ UNCHANGED <<query, out, unsupported>>
                            /\ Frozen
                       ELSE IF f.depth - 1 = 0 /\ f.needs_reset
                            \* RESET: the file is opened again and a new parser made
                            THEN /\ pos' = 0
                                 /\ stack' = SetTop([f EXCEPT !.depth = 0, !.needs_reset = FALSE])
                                 /\ diag' = Append(diag, <<"Resetting...">>)
                                 /\ UNCHANGED <<query, out, printed, unsupported, status>>
                                 /\ Frozen
                            ELSE Cont(SetTop([f EXCEPT !.depth = @ - 1]))
             [] e.type = "ObjectKey" ->
                  IF f.depth # 1 THEN Cont(stack)
                  ELSE IF e.key \in MetaKeys
                       THEN Cont(SetTop([f EXCEPT !.meta_key = Some(e.key)]))
                  ELSE IF e.key = "provider_references"
                       THEN Step(Append(SetTop([f EXCEPT !.providers_seen = TRUE]), ProviderRefsFrame),
                                 query, out, Append(diag, <<"Processing provider_references...">>),
                                 status)
                  ELSE IF e.key = "in_network"
                       THEN Step(Append(SetTop([f EXCEPT !.network_seen = TRUE]),
                                        InNetworkCallee(f.providers_seen, query)),
                                 query, out,
                                 Append(diag, IF ~f.providers_seen
                                              THEN <<"in_network seen first... skipping...">>
                                              ELSE <<"Processing in_network...">>),
                                 status)
                  ELSE Unsupported(diag, stack, e.key, "top level")
             [] e.type = "String" ->
                  IF f.depth # 1 THEN Cont(stack)
                  ELSE IF IsNone(f.meta_key) THEN Panic
                  ELSE \E build \in MetaAddBuilds(f.metadata) :
                          IF build = "debug" THEN Panic
                          ELSE Step(SetTop([f EXCEPT !.metadata = MetaAdd(@, Unwrap(f.meta_key), e.val),
                                                     !.meta_key = None]),
                                    query, out,
                                    diag \o MetaDiag(MetaAdd(f.metadata, Unwrap(f.meta_key), e.val)),
                                    status)
             [] e.type = "Eof" -> Panic
             [] OTHER -> Cont(stack)


----------------------------------------------------------------------------
(* The two runs of basic_test_of_run_and_reset: the same Query on a file and on *)
(* the file with provider_references and in_network swapped                    *)

IsOpen(e) == e.type \in {"StartObject", "StartArray"}
IsClose(e) == e.type \in {"EndObject", "EndArray"}

RECURSIVE ValueEnd(_, _)
\* the index of the event that closes the object or array whose next value
\* or key is at i
RECURSIVE CloseFrom(_, _)
CloseFrom(d, i) == IF IsClose(d[i]) THEN i ELSE CloseFrom(d, ValueEnd(d, i) + 1)

\* the index of the last event of the value that starts at i
ValueEnd(d, i) == IF IsOpen(d[i]) THEN CloseFrom(d, i + 1) ELSE i

\* the index of a key of the outer object, 0 when the object does not have it
RECURSIVE TopKey(_, _, _)
TopKey(d, i, key) ==
    IF i > Len(d) \/ d[i].type # "ObjectKey" THEN 0
    ELSE IF d[i].key = key THEN i
    ELSE TopKey(d, ValueEnd(d, i + 1) + 1, key)

HasBothArrays(d) ==
    TopKey(d, 2, "provider_references") # 0 /\ TopKey(d, 2, "in_network") # 0

\* the file with the positions of provider_references and in_network swapped
SwapArrays(d) ==
    LET a == TopKey(d, 2, "provider_references")
        b == TopKey(d, 2, "in_network")
        first == IF a < b THEN a ELSE b
        second == IF a < b THEN b ELSE a
        fe == ValueEnd(d, first + 1)
        se == ValueEnd(d, second + 1)
    IN  SubSeq(d, 1, first - 1) \o SubSeq(d, second, se) \o SubSeq(d, fe + 1, second - 1)
          \o SubSeq(d, first, fe) \o SubSeq(d, se + 1, Len(d))

\* the second call of run, with a clone of the Query and a new buffer, on the
\* swapped file; UNSUPPORTED_KEYS is a thread local and stays
second_run ==
    /\ status # "running"
    /\ run_no = 1
    /\ HasBothArrays(doc)
    /\ run_no' = 2
    /\ out1' = out
    /\ status1' = status
    /\ query1' = query
    /\ doc' = SwapArrays(doc)
    /\ pos' = 0
    /\ stack' = <<RunFrame>>
    /\ query' = query0
    /\ out' = <<>>
    /\ printed' = <<>>
    /\ diag' = <<>>
    /\ status' = "running"
    /\ UNCHANGED <<unsupported, query0>>

----------------------------------------------------------------------------
(* The files and queries of the model *)

\* the sequences of at most n elements of the catalog c, each flattened
ArraysOf(c, n) ==
    UNION {{Flatten([i \in 1..k |-> c[ix[i]]]) : ix \in [1..k -> 1..Len(c)]} : k \in 0..n}

Tin(t, v) == K("tin") \o SO \o K("type") \o t \o K("value") \o v \o EO
Npis(ns) == K("npi") \o SA \o ns \o EA

\* elements of provider_references
PR_a == SO \o K("provider_group_id") \o N(<<"1","1">>)
           \o K("provider_groups") \o SA
           \o SO \o Npis(N(<<"1">>)) \o Tin(S(<<"e">>), S(<<"7">>)) \o EO
           \o EA \o EO
PR_b == SO \o K("provider_groups") \o SA
           \o SO \o K("tin") \o SO \o K("value") \o S(<<"8">>) \o K("type") \o S(<<"e">>) \o EO
                 \o Npis(N(<<"3">>) \o N(<<"1">>) \o N(<<"2">>)) \o EO
           \o EA \o K("provider_group_id") \o N(<<"1","2">>) \o EO
PR_c == SO \o K("provider_groups") \o SA
           \o SO \o Npis(N(<<"2">>)) \o Tin(S(<<"e">>), S(<<"9">>)) \o EO
           \o EA \o EO
PR_d == SO \o K("provider_group_id") \o N(<<"1","1">>)
           \o K("location") \o SO \o K("zip") \o SA \o N(<<"5">>) \o EA \o EO
           \o K("provider_groups") \o SA
           \o SO \o Npis(N(<<"2">>)) \o K("tin") \o SO \o K("value") \o S(<<"7">>) \o EO \o EO
           \o SO \o Npis(N(<<"1">>)) \o Tin(S(<<"e">>), NUL) \o K("note") \o S(<<"x">>) \o EO
           \o EA \o EO

ProviderElements == <<PR_a, PR_b, PR_c, PR_d>>

\* price objects
PO_full == SO \o K("negotiated_type") \o S(<<"n">>) \o K("negotiated_rate") \o N(<<"9",".","5">>)
              \o K("expiration_date") \o S(<<"d">>)
              \o K("service_code") \o SA \o S(<<"A">>) \o S(<<"B">>) \o EA
              \o K("billing_class") \o S(<<"c">>) \o K("billing_code_modifier") \o S(<<"m">>) \o EO
PO_odd == SO \o K("expiration_date") \o N(<<"2","0">>) \o K("negotiated_rate") \o S(<<"1",",","5">>)
             \o K("extra") \o SA \o SO \o EO \o EA \o K("billing_class") \o NUL \o EO

Refs(ns) == K("provider_references") \o SA \o ns \o EA
Prices(ps) == K("negotiated_prices") \o SA \o ps \o EA

\* rate objects
RT_1 == SO \o Refs(N(<<"1","2">>) \o N(<<"9","9">>) \o N(<<"1","1">>)) \o Prices(PO_full \o PO_odd) \o EO
RT_2 == SO \o Prices(PO_full) \o Refs(N(<<"9","9">>)) \o EO
RT_3 == SO \o Refs(N(<<"1","2">>)) \o EO
RT_4 == SO \o Refs(N(<<"1","2">>) \o N(<<"1","1">>)) \o Prices(<<>>) \o K("tier") \o N(<<"1">>) \o EO
RT_5 == SO \o Refs(N(<<"9","9">>)) \o Prices(PO_full) \o EO

Rates(rs) == K("negotiated_rates") \o SA \o rs \o EA
Code(c) == K("billing_code") \o S(c)

\* elements of in_network
EL_1 == SO \o K("negotiation_arrangement") \o S(<<"f">>) \o K("name") \o S(<<"i">>)
           \o K("billing_code_type") \o S(<<"t">>) \o K("billing_code_type_version") \o S(<<"2">>)
           \o Code(<<"c","1">>) \o K("description") \o S(<<"d">>) \o Rates(RT_1) \o EO
EL_2 == SO \o Rates(RT_1) \o Code(<<"x">>) \o K("name") \o S(<<"j">>) \o EO
EL_3 == SO \o Rates(RT_4) \o Code(<<"C","1">>) \o EO
EL_4 == SO \o Code(<<"x">>) \o K("name") \o S(<<"k">>) \o Rates(RT_1) \o EO
EL_5 == SO \o Code(<<"c","1">>) \o Rates(RT_2 \o RT_3)
           \o K("unk") \o SO \o K("a") \o SA \o EA \o EO \o K("description") \o S(<<"a",",","b">>) \o EO
EL_6 == SO \o K("name") \o S(<<"k">>) \o Code(<<"c","1">>) \o Rates(RT_5)
           \o K("description") \o S(<<"z">>) \o EO
EL_7 == SO \o Code(<<"c","1">>) \o Rates(RT_3) \o EO
EL_8 == SO \o K("name") \o S(<<"q">>) \o Rates(RT_1 \o RT_4) \o EO

NetworkElements == <<EL_1, EL_2, EL_3, EL_4, EL_5, EL_6, EL_7, EL_8>>

Metadata ==
    K("reporting_entity_name") \o S(<<"A">>) \o K("reporting_entity_type") \o S(<<"T">>)
      \o K("last_updated_on") \o S(<<"d">>) \o K("version") \o S(<<"1">>)

\* a data file: the outer object with the two arrays, provider_references first
File(pre, provs, mid, nets, post) ==
    SO \o pre \o K("provider_references") \o SA \o provs \o EA \o mid
       \o K("in_network") \o SA \o nets \o EA \o post \o EO

\* files that vary the in_network array
NetworkFiles ==
    {File(<<>>, PR_a \o PR_b, <<>>, nets, <<>>) : nets \in ArraysOf(NetworkElements, MaxNetworks)}

\* files that vary the provider_references array
ProviderFiles ==
    {File(<<>>, provs, <<>>, EL_3 \o EL_1, <<>>) : provs \in ArraysOf(ProviderElements, MaxProvRefs)}

\* files that vary the keys of the outer object
OuterFiles ==
    {File(pre, PR_a, mid, EL_1, post) :
        pre \in {<<>>, Metadata}, mid \in {<<>>, K("other") \o SA \o SA \o EA \o EA},
        post \in {<<>>, K("last") \o NUL}}

\* files whose outer object lacks one of the two arrays, or both
MissingFiles ==
    {SO \o pre \o body \o EO :
        pre \in {<<>>, Metadata},
        body \in {<<>>, K("provider_references") \o SA \o PR_a \o EA,
                  K("in_network") \o SA \o EL_1 \o EA}}

Files == NetworkFiles \cup ProviderFiles \cup OuterFiles \cup MissingFiles

Providers(npis) == [i \in 1..Len(npis) |-> NewProvider(npis[i])]

\* queries, as read_input builds them
Queries ==
    {[providers |-> Providers(<<1, 2>>),
      codes |-> <<NewCode(<<"t">>, <<"c","1">>), NewCode(<<"T">>, <<"z">>)>>],
     [providers |-> Providers(<<2, 1, 2>>),
      codes |-> <<NewCode(<<"*">>, <<"*">>)>>]}

Init ==
    /\ doc \in Files
    /\ query0 \in Queries
    /\ query = query0
    /\ pos = 0
    /\ stack = <<RunFrame>>
    /\ out = <<>>
    /\ printed = <<>>
    /\ diag = <<>>
    /\ unsupported = {}
    /\ status = "running"
    /\ run_no = 1
    /\ out1 = <<>>
    /\ status1 = "running"
    /\ query1 = query0

Next ==
    \/ run
    \/ process_provider_refs
    \/ process_provider_groups
    \/ process_in_network
    \/ process_negotiated_rates
    \/ process_negotiated_prices
    \/ bypass_key
    \/ ff_to_next_obj
    \/ skip_array
    \/ second_run

Spec == Init /\ [][Next]_vars

----------------------------------------------------------------------------
(* log_code on its own, as test_log_code calls it *)

\* the length of the list of Codes
MaxCodes == 2

\* the Codes of the Queries of the test
CodeCatalog ==
    {NewCode(t, v) : t \in {<<"t">>, <<"T">>, <<"*">>}, v \in {<<"c","1">>, <<"*">>, <<"z">>}}

\* the arguments of log_code
CodeArgs == {<<"C","1">>, <<"z">>}
TypeArgs == {<<"T">>, <<"u">>}

\* the call of log_code: its arguments and the Query it was called on
LogCodeFrame(c, c_type, q) == [fn |-> "log_code", c |-> c, c_type |-> c_type, before |-> q]

InitLogCode ==
    /\ query \in {[providers |-> <<>>, codes |-> cs] : cs \in [1..MaxCodes -> CodeCatalog]}
    /\ query0 = query
    /\ doc = <<>>
    /\ pos = 0
    /\ stack = <<>>
    /\ out = <<>>
    /\ printed = <<>>
    /\ diag = <<>>
    /\ unsupported = {}
    /\ status = "ok"
    /\ run_no = 1
    /\ out1 = <<>>
    /\ status1 = "ok"
    /\ query1 = query

\* q.log_code(&c, &t)
test_log_code ==
    \E c \in CodeArgs, c_type \in TypeArgs :
       /\ query' = log_code(query, c, c_type)
       /\ stack' = <<LogCodeFrame(c, c_type, query)>>
       /\ UNCHANGED <<doc, pos, out, printed, diag, unsupported, status, run_no, out1, status1,
                      query1, query0>>

NextLogCode == test_log_code

LogCodeSpec == InitLogCode /\ [][NextLogCode]_vars

----------------------------------------------------------------------------
(* A further call of run, as basic_test_of_run_and_reset makes its second one: *)
(* a clone of the Query and a new buffer, on a variant of the file             *)

\* elements of each array of the files below
MaxVariantElems == 1

\* the members of the object whose first key is at k, last one first
RECURSIVE ReversedMembers(_, _)
ReversedMembers(d, k) ==
    IF IsClose(d[k]) THEN <<>>
    ELSE ReversedMembers(d, ValueEnd(d, k + 1) + 1) \o SubSeq(d, k, ValueEnd(d, k + 1))

\* the file with the keys of the object that starts at s in the reverse order
ReverseObject(d, s) ==
    SubSeq(d, 1, s) \o ReversedMembers(d, s + 1) \o SubSeq(d, CloseFrom(d, s + 1), Len(d))

\* the objects below the outer one
InnerObjects(d) == {s \in 2..Len(d) : d[s].type = "StartObject"}

\* values of a key that no function knows
UnknownValues ==
    {N(<<"7">>), S(<<"c","1">>),
     SO \o K("billing_code") \o S(<<"z">>) \o K("b") \o SA \o SO \o EO \o EA \o EO,
     SA \o SA \o N(<<"1","2">>) \o EA \o SO \o K("npi") \o SA \o N(<<"1">>) \o EA \o EO \o EA}

\* the places of a file where a member can be added: before a key and before
\* the end of an object
MemberPlaces(d) == {i \in 2..Len(d) : d[i].type \in {"ObjectKey", "EndObject"}}

\* the file with the key zz and the value v added at the place i
AddKey(d, i, v) == SubSeq(d, 1, i - 1) \o K("zz") \o v \o SubSeq(d, i, Len(d))

\* a call of run with a clone of the Query, a new buffer and the file d
further_run(d, n) ==
    /\ status # "running"
    /\ run_no = 1
    /\ run_no' = n
    /\ out1' = out
    /\ status1' = status
    /\ query1' = query
    /\ doc' = d
    /\ pos' = 0
    /\ stack' = <<RunFrame>>
    /\ query' = query0
    /\ out' = <<>>
    /\ printed' = <<>>
    /\ diag' = <<>>
    /\ status' = "running"
    /\ UNCHANGED <<unsupported, query0>>

permuted_run == \E s \in InnerObjects(doc) : further_run(ReverseObject(doc, s), 3)

extended_run ==
    \E i \in MemberPlaces(doc), v \in UnknownValues : further_run(AddKey(doc, i, v), 4)

repeated_run == further_run(doc, 5)

\* the file with one more element at the head of provider_references
AddProviderRef(d) ==
    LET a == TopKey(d, 2, "provider_references")
    IN  SubSeq(d, 1, a + 1) \o PR_a \o SubSeq(d, a + 2, Len(d))

longer_run == further_run(AddProviderRef(doc), 6)

VariantFiles ==
    {File(<<>>, provs, <<>>, nets, <<>>) :
        provs \in ArraysOf(<<PR_b, PR_d>>, MaxVariantElems),
        nets \in ArraysOf(<<EL_1, EL_3, EL_5, EL_6>>, MaxVariantElems)}
      \cup {File(<<>>, PR_a \o PR_b, <<>>, EL_1, <<>>)}

InitVariant ==
    /\ doc \in VariantFiles
    /\ query0 \in Queries
    /\ query = query0
    /\ pos = 0
    /\ stack = <<RunFrame>>
    /\ out = <<>>
    /\ printed = <<>>
    /\ diag = <<>>
    /\ unsupported = {}
    /\ status = "running"
    /\ run_no = 1
    /\ out1 = <<>>
    /\ status1 = "running"
    /\ query1 = query0

NextVariant ==
    \/ run
    \/ process_provider_refs
    \/ process_provider_groups
    \/ process_in_network
    \/ process_negotiated_rates
    \/ process_negotiated_prices
    \/ bypass_key
    \/ ff_to_next_obj
    \/ skip_array
    \/ permuted_run
    \/ extended_run
    \/ repeated_run
    \/ longer_run

VariantSpec == InitVariant /\ [][NextVariant]_vars

----------------------------------------------------------------------------
(* main: read_input, run, warn_not_recorded *)

\* the items under the mode header npi of a query file
MaxQueryNpis == 2

\* char::is_whitespace: the characters with the property White_Space; one
\* that has no escape in a string is written as its code point
IsSpace(c) ==
    c \in {" ", "\t", "\n", "\r", "\f", "U+000B", "U+0085", "U+00A0", "U+1680",
           "U+2000", "U+2001", "U+2002", "U+2003", "U+2004", "U+2005", "U+2006",
           "U+2007", "U+2008", "U+2009", "U+200A", "U+2028", "U+2029", "U+202F",
           "U+205F", "U+3000"}

\* str::trim
Trim(s) ==
    LET keep == {i \in 1..Len(s) : ~IsSpace(s[i])}
    IN  IF keep = {} THEN <<>>
        ELSE SubSeq(s, CHOOSE i \in keep : \A j \in keep : i <= j,
                       CHOOSE i \in keep : \A j \in keep : j <= i)

\* Query::new
NewQuery == [providers |-> <<>>, codes |-> <<>>]

\* the locals of read_input at its entry; f holds the lines not yet read, as
\* BufRead::lines gives them, and opened tells that File::open returned Ok
ReadInputFrame(lines) ==
    [fn |-> "read_input", f |-> lines, state |-> "Undefined", c_type |-> None,
     query |-> NewQuery, opened |-> TRUE]

\* read_input on a path File::open fails on
ReadInputNoFile == [ReadInputFrame(<<>>) EXCEPT !.opened = FALSE]

\* an item of f.lines() that is Err: the bytes of the line are not UTF-8
InvalidLine == <<"not UTF-8">>

\* a variant of IsItemLine that takes any leading white space for an indent
IsItemLineAnySpace(line) == IsSpace(line[1])

\* line.chars().nth(0) == Some(' ')
IsItemLine(line) == line[1] = " "

\* one iteration of the loop of read_input; on Ok(query) main calls run, on
\* Err, from File::open or from a line, its unwrap panics
read_input ==
    /\ status = "reading"
    /\ Top.fn = "read_input"
    /\ LET f == Top
       IN  IF ~f.opened \/ (f.f # <<>> /\ Head(f.f) = InvalidLine)
           THEN /\ stack' = <<[f EXCEPT !.f = IF @ = <<>> THEN @ ELSE Tail(@)]>>
                /\ status' = "panic"
                /\ UNCHANGED <<doc, pos, query, out, printed, diag, unsupported,
                               run_no, out1, status1, query1, query0>>
           ELSE IF f.f = <<>>
           THEN /\ query' = f.query
                /\ query0' = f.query
                /\ stack' = <<RunFrame>>
                /\ status' = "running"
                /\ UNCHANGED <<doc, pos, out, printed, diag, unsupported, run_no, out1,
                               status1, query1>>
           ELSE LET line == Head(f.f)
                    g == [f EXCEPT !.f = Tail(@)]
                    next(frame, st) ==
                        /\ stack' = <<frame>>
                        /\ status' = st
                        /\ UNCHANGED <<doc, pos, query, out, printed, diag, unsupported,
                                       run_no, out1, status1, query1, query0>>
                IN  IF Len(line) = 0 THEN next(g, status)
                    ELSE IF IsItemLine(line)
                    THEN CASE f.state = "BillingCode" ->
                                next([g EXCEPT !.query.codes =
                                         Append(@, NewCode(Unwrap(f.c_type), Trim(line)))],
                                     status)
                           [] f.state = "Npi" ->
                                IF ParseU64(Trim(line)) < 0 THEN next(g, "panic")
                                ELSE next([g EXCEPT !.query.providers =
                                              Append(@, NewProvider(ParseU64(Trim(line))))],
                                          status)
                           [] OTHER -> next(g, "panic")
                    ELSE IF Trim(line) = <<"n","p","i">>
                         THEN next([g EXCEPT !.state = "Npi"], status)
                         ELSE next([g EXCEPT !.state = "BillingCode",
                                             !.c_type = Some(Trim(line))], status)

\* the Providers that eprint_no_match is called on, in the order of the list
RECURSIVE NoMatchProviders(_, _)
NoMatchProviders(ps, i) ==
    IF i > Len(ps) THEN <<>>
    ELSE (IF ps[i].recorded THEN <<>>
          ELSE <<<<"WARNING: No match found for Provider", ps[i]>>>>)
         \o NoMatchProviders(ps, i + 1)

\* a variant of ZeroMatchNpis: the NPIs with some Provider that is not recorded
SomeUnmatchedNpis(ps) == {ps[i].npi : i \in {j \in 1..Len(ps) : ~ps[j].recorded}}

\* the keys of npi_map with v[recor_idx] == 0
ZeroMatchNpis(ps) ==
    {ps[i].npi : i \in 1..Len(ps)} \ {ps[i].npi : i \in {j \in 1..Len(ps) : ps[j].recorded}}

RECURSIVE NoMatchCodes(_, _)
NoMatchCodes(cs, i) ==
    IF i > Len(cs) THEN <<>>
    ELSE (IF cs[i].recorded THEN <<>>
          ELSE <<<<"WARNING: No match found for Code", cs[i]>>>>)
         \o NoMatchCodes(cs, i + 1)

\* main after run returned Ok: q.warn_not_recorded(), then Ok(())
warn_not_recorded ==
    /\ status = "ok"
    /\ run_no = 1
    /\ \E order \in KeyOrders(ZeroMatchNpis(query.providers)) :
          diag' = diag \o NoMatchProviders(query.providers, 1)
                       \o [i \in 1..Len(order) |->
                             <<"WARNING: Zero matches found for npi", order[i]>>]
                       \o NoMatchCodes(query.codes, 1)
    /\ status' = "exit"
    /\ UNCHANGED <<doc, pos, stack, query, out, printed, unsupported, run_no, out1,
                   status1, query1, query0>>

\* lines of a query file
QL_npi == <<"n","p","i">>
QL_t == <<"t">>
QL_c1 == <<" ","c","1">>
QL_star == <<"*">>
QL_any == <<" ","*"," ">>

\* the query files: some lines, then the mode npi with its items, then a code
\* type with its item
QueryFiles ==
    {pre \o <<QL_npi>> \o npis \o codes :
        pre \in {<<>>, <<<<>>>>, <<<<" ","1">>>>, <<<<"\t","1">>>>, <<<<" "," ">>>>,
                 <<<<>>, <<" ","c","1">>>>, <<QL_t, <<"\t","z">>>>, <<InvalidLine>>},
        npis \in UNION {[1..k -> {<<" ","1">>, <<" "," ","2">>, <<" ","4">>, <<"\t","4">>,
                                  <<" ","+","1","\r">>}] :
                           k \in 0..MaxQueryNpis},
        codes \in {<<>>, <<QL_t, QL_c1>>, <<QL_star, <<>>, QL_any>>}}

\* the data files main is run on
MainFiles ==
    {File(<<>>, PR_a \o PR_b, <<>>, EL_1 \o EL_6, <<>>),
     SwapArrays(File(<<>>, PR_a \o PR_b, <<>>, EL_1 \o EL_6, <<>>)),
     File(<<>>, PR_b, <<>>, EL_6 \o EL_3, <<>>)}

InitMain ==
    /\ doc \in MainFiles
    /\ stack \in {<<ReadInputFrame(lines)>> : lines \in QueryFiles} \cup {<<ReadInputNoFile>>}
    /\ query = NewQuery
    /\ query0 = NewQuery
    /\ query1 = NewQuery
    /\ pos = 0
    /\ out = <<>>
    /\ printed = <<>>
    /\ diag = <<>>
    /\ unsupported = {}
    /\ status = "reading"
    /\ run_no = 1
    /\ out1 = <<>>
    /\ status1 = "running"

NextMain ==
    \/ read_input
    \/ run
    \/ process_provider_refs
    \/ process_provider_groups
    \/ process_in_network
    \/ process_negotiated_rates
    \/ process_negotiated_prices
    \/ bypass_key
    \/ ff_to_next_obj
    \/ skip_array
    \/ warn_not_recorded

MainSpec == InitMain /\ [][NextMain]_vars

----------------------------------------------------------------------------
(* Reading the sink and the file, for the properties below *)

\* the fields of a line, split at the commas
Fields(line) == Pieces(line, ",")

\* the lines of a sink after the header
DataLines(o) == IF o = <<>> THEN <<>> ELSE Tail(Lines(o))

\* the fields joined by commas
RECURSIVE JoinFields(_)
JoinFields(fs) ==
    IF Len(fs) = 0 THEN <<>>
    ELSE IF Len(fs) = 1 THEN fs[1]
    ELSE fs[1] \o Comma \o JoinFields(Tail(fs))

\* process_in_network is about to read the EndObject of an element it writes
EmitStep ==
    /\ Running("process_in_network")
    /\ NextEvent.type = "EndObject"
    /\ Top.cb = 1
    /\ Top.network.billing_code # <<>>
    /\ IsSome(Top.network.negotiated_rates)

\* the positions (rate, reference, tuple, price) of the rows of an element
RowPositions(rates, ref_map) ==
    UNION {UNION {{<<r, i, j, k>> :
                      j \in 1..Len(ref_map[rates[r].provider_references[i]]),
                      k \in 1..Len(rates[r].negotiated_prices)} :
                  i \in 1..Len(rates[r].provider_references)} :
           r \in 1..Len(rates)}

\* the order of the positions: rate, then reference, then tuple, then price
PositionBefore(a, b) ==
    \E n \in 1..4 : a[n] < b[n] /\ \A m \in 1..(n - 1) : a[m] = b[m]

\* the row the description gives for one position
RowAt(t, network, rates, ref_map) ==
    LET rate == rates[t[1]]
        reference == rate.provider_references[t[2]]
        price == rate.negotiated_prices[t[4]]
    IN  JoinFields(<<ref_map[reference][t[3]], FormatU64(reference),
                     DefaultIfEmpty(network.negotiation_arrangement),
                     DefaultIfEmpty(network.name),
                     DefaultIfEmpty(network.billing_code_type),
                     DefaultIfEmpty(network.billing_code_type_version),
                     DefaultIfEmpty(network.billing_code),
                     DefaultIfEmpty(network.description),
                     DefaultIfEmpty(price.negotiated_type),
                     DefaultIfEmpty(price.negotiated_rate),
                     DefaultIfEmpty(price.expiration_date),
                     DefaultIfEmpty(price.service_code),
                     DefaultIfEmpty(price.billing_class),
                     DefaultIfEmpty(price.billing_code_modifier)>>) \o Newline

\* the rows of an element in the order of their positions
ExpectedRows(network, ref_map) ==
    LET rates == Unwrap(network.negotiated_rates)
        ps == RowPositions(rates, ref_map)
        at(n) == CHOOSE t \in ps : Cardinality({u \in ps : PositionBefore(u, t)}) = n - 1
    IN  Flatten([n \in 1..Cardinality(ps) |-> RowAt(at(n), network, rates, ref_map)])

\* the sum over rates and references of tuples times prices
RECURSIVE RowSum(_, _, _, _)
RowSum(rates, ref_map, r, i) ==
    IF r > Len(rates) THEN 0
    ELSE IF i > Len(rates[r].provider_references) THEN RowSum(rates, ref_map, r + 1, 1)
    ELSE Len(ref_map[rates[r].provider_references[i]]) * Len(rates[r].negotiated_prices)
           + RowSum(rates, ref_map, r, i + 1)

NewlineCount(s) == Cardinality({i \in 1..Len(s) : s[i] = "\n"})

\* the billing codes the Query lets through
CodeAllowed(code) ==
    LET codeset == {to_ascii_uppercase(query0.codes[i].value) : i \in 1..Len(query0.codes)}
    IN  code \in codeset \/ <<"*">> \in codeset

\* the references a list of rates holds
RefsOfRates(rates) ==
    UNION {{rates[r].provider_references[i] : i \in 1..Len(rates[r].provider_references)} :
           r \in 1..Len(rates)}


\* the positions where the values of an array start, from the value at i on
RECURSIVE ItemsFrom(_, _)
ItemsFrom(d, i) ==
    IF i > Len(d) \/ IsClose(d[i]) THEN <<>>
    ELSE <<i>> \o ItemsFrom(d, ValueEnd(d, i) + 1)

\* the positions where the values of the array that opens at a start
Items(d, a) == ItemsFrom(d, a + 1)

\* the value of a key of the object that opens at s: its position, 0 when the
\* object does not have the key
ValueOf(d, s, key) ==
    LET k == TopKey(d, s + 1, key) IN IF k = 0 THEN 0 ELSE k + 1

RECURSIVE OpenOf(_, _)
\* the index of the event that opens the object or array whose previous value
\* or key ends at i
RECURSIVE OpenFrom(_, _)
OpenFrom(d, i) == IF IsOpen(d[i]) THEN i ELSE OpenFrom(d, OpenOf(d, i) - 1)

\* the position where the value that ends at e opens
OpenOf(d, e) == IF IsClose(d[e]) THEN OpenFrom(d, e - 1) ELSE e

\* the references the rates of the in_network element at s list
ElementRefs(d, s) ==
    LET r == ValueOf(d, s, "negotiated_rates")
        rates == IF r = 0 \/ d[r].type # "StartArray" THEN <<>> ELSE Items(d, r)
        refs(rt) == LET v == IF d[rt].type = "StartObject"
                              THEN ValueOf(d, rt, "provider_references") ELSE 0
                    IN  IF v = 0 \/ d[v].type # "StartArray" THEN {}
                        ELSE {ParseU64(d[Items(d, v)[i]].val) : i \in 1..Len(Items(d, v))}
    IN  UNION {refs(rates[i]) : i \in 1..Len(rates)}

\* the in_network element at s has a billing code the Query lets through
ElementCodeMatches(d, s) ==
    LET c == ValueOf(d, s, "billing_code")
    IN  c # 0 /\ d[c].type = "String" /\ d[c].val # <<>>
          /\ CodeAllowed(to_ascii_uppercase(d[c].val))

\* the in_network elements of the file
NetworkItems(d) ==
    LET v == ValueOf(d, 1, "in_network")
        items == IF v = 0 THEN <<>> ELSE Items(d, v)
    IN  {items[i] : i \in 1..Len(items)}

\* the number of rows on a sink
DataRows(o) == Len(DataLines(o))

\* what is written to the standard output: the sink of main, then println!
PrimaryStream == out \o printed

\* the Price with every field null
AllNullPrice ==
    [negotiated_type |-> NullStr, negotiated_rate |-> NullStr, expiration_date |-> NullStr,
     service_code |-> NullStr, billing_class |-> NullStr, billing_code_modifier |-> NullStr]

\* process_negotiated_prices is about to read the end of an array that holds
\* no price object
EmptyPricesReturn ==
    /\ Running("process_negotiated_prices")
    /\ NextEvent.type = "EndArray"
    /\ Top.sq = 1
    /\ \A i \in OpenOf(doc, pos + 1)..pos : doc[i].type # "StartObject"

\* the group id of the provider_references element at s
ElementGid(d, s) ==
    LET v == ValueOf(d, s, "provider_group_id")
    IN  IF v = 0 \/ d[v].type # "Number" THEN None ELSE Some(ParseU64(d[v].val))

\* the provider groups of the provider_references element at s
ElementGroups(d, s) ==
    LET v == ValueOf(d, s, "provider_groups")
    IN  IF v = 0 \/ d[v].type # "StartArray" THEN <<>> ELSE Items(d, v)

\* the NPIs of the provider group at g
GroupNpis(d, g) ==
    LET v == ValueOf(d, g, "npi")
    IN  IF v = 0 \/ d[v].type # "StartArray" THEN {}
        ELSE {ParseU64(d[Items(d, v)[i]].val) : i \in 1..Len(Items(d, v))}

\* a field of the tin of the provider group at g, null when it is not given
GroupTin(d, g, field) ==
    LET t == ValueOf(d, g, "tin")
        v == IF t = 0 \/ d[t].type # "StartObject" THEN 0 ELSE ValueOf(d, t, field)
    IN  IF v = 0 \/ d[v].type # "String" \/ d[v].val = <<>> THEN NullStr ELSE d[v].val

\* the pairings (group_id, tin_type, tin_value) of the file for an NPI, in
\* source order
Pairings(d, npi) ==
    LET v == ValueOf(d, 1, "provider_references")
        elems == IF v = 0 THEN <<>> ELSE Items(d, v)
        ofGroup(s, g) == IF npi \in GroupNpis(d, g)
                         THEN <<[group_id |-> ElementGid(d, s),
                                 tin_type |-> Some(GroupTin(d, g, "type")),
                                 tin_value |-> Some(GroupTin(d, g, "value"))]>>
                         ELSE <<>>
        ofElem(s) == IF d[s].type # "StartObject" THEN <<>>
                     ELSE Flatten([i \in 1..Len(ElementGroups(d, s)) |->
                                      ofGroup(s, ElementGroups(d, s)[i])])
    IN  Flatten([i \in 1..Len(elems) |-> ofElem(elems[i])])

\* the pairing a Provider record carries
PairingOf(p) == [group_id |-> p.group_id, tin_type |-> p.tin_type, tin_value |-> p.tin_value]

\* the records of a list with an NPI, in list order
RecordsOf(providers, npi) ==
    LET has(p) == p.npi = npi IN SelectSeq(providers, has)

\* process_provider_refs has returned from its first walk of the array
WalkedOnce ==
    /\ Len(stack) = 1 /\ Top.fn = "run" /\ Top.providers_seen
    /\ pos = ValueEnd(doc, ValueOf(doc, 1, "provider_references"))
    /\ \A i \in 1..Len(diag) : diag[i] # <<"Resetting...">>

----------------------------------------------------------------------------
(* Properties *)

\* C1: a file with in_network before provider_references yields, for the same
\* Query, the same bytes on the sink as the file with the two arrays swapped
C1_OrderReversal ==
    (run_no = 2 /\ status # "running") => out = out1

\* C1: both orders have run, the second one reset, and rows were written
C1_Witness ==
    /\ run_no = 2 /\ status = "ok"
    /\ Len(Lines(out)) >= 3
    /\ out = out1
    /\ \E i \in 1..Len(diag) : diag[i] = <<"Resetting...">>

\* C2: an element that is written appends its rows in the order rate, reference,
\* tuple, price; each row is the tuple, the reference, the six fields of the
\* element and the six fields of the price; the rows number the sum over rates
\* and references of tuples times prices
C2_RowEmission ==
    [][EmitStep =>
          LET f == Top
              n == f.network
              rates == Unwrap(n.negotiated_rates)
              header == IF f.header_written THEN <<>> ELSE HeaderLine
          IN  /\ out' = out \o header \o ExpectedRows(n, f.ref_map)
              /\ NewlineCount(out') - NewlineCount(out \o header)
                    = RowSum(rates, f.ref_map, 1, 1)]_vars

\* C2: an element with several references, tuples and prices has been written
C2_Witness ==
    /\ Running("process_in_network")
    /\ pos > 0 /\ doc[pos].type = "EndObject"
    /\ Top.cb = 0 /\ Top.header_written
    /\ LET rows == DataLines(out)
       IN  /\ Len(rows) >= 6
           /\ \E i, j \in 1..Len(rows) :
                 /\ i < j
                 /\ Fields(rows[i])[1] # Fields(rows[j])[1]
                 /\ Fields(rows[i])[4] = Fields(rows[j])[4]

\* C3: the billing code of every row, and of every element kept for writing,
\* is in the set of codes of the Query, or the set holds the wildcard
C3_CodeSoundness ==
    /\ LET rows == DataLines(out)
       IN  \A i \in 1..Len(rows) : CodeAllowed(to_ascii_uppercase(Fields(rows[i])[9]))
    /\ \A i \in 1..Len(stack) :
          stack[i].fn = "process_in_network" =>
             \/ stack[i].network.billing_code = <<>>
             \/ CodeAllowed(stack[i].network.billing_code)

\* C3: an element whose rates were kept before its billing code failed the
\* filter has been dropped, and the run wrote rows of another element
C3_Witness ==
    /\ status = "ok"
    /\ <<"*">> \notin make_code_set(query0)
    /\ Len(DataLines(out)) >= 1
    /\ \E i \in 2..(Len(doc) - 1) :
          /\ doc[i].type = "ObjectKey" /\ doc[i].key = "billing_code"
          /\ doc[i - 1].type = "EndArray"
          /\ ~CodeAllowed(to_ascii_uppercase(doc[i + 1].val))

\* C4: every reference kept in a rate, and the group of every row, is a key of
\* the Ref map, and the lookup of print_record finds every reference
C4_ReferenceSoundness ==
    /\ \A i \in 1..Len(stack) :
          /\ stack[i].fn = "process_negotiated_rates" =>
                RefsOfRates(Append(stack[i].rates, stack[i].rate)) \subseteq DOMAIN stack[i].ref_map
          /\ stack[i].fn = "process_in_network" =>
                /\ IsSome(stack[i].network.negotiated_rates) =>
                      RefsOfRates(Unwrap(stack[i].network.negotiated_rates))
                         \subseteq DOMAIN stack[i].ref_map
                /\ LET rows == DataLines(out)
                       groups == {FormatU64(g) : g \in DOMAIN stack[i].ref_map}
                   IN  \A l \in 1..Len(rows) : Fields(rows[l])[4] \in groups
    /\ EmitStep =>
          ~print_record(NetworkPushDefaults(Top.network), query, Top.ref_map, out).panicked

\* C4: a rate keeps a reference of the Ref map after a reference that is not a
\* key of the map was read
C4_Witness ==
    /\ Running("process_negotiated_rates")
    /\ Len(Top.rate.provider_references) >= 2
    /\ \E i \in 1..pos :
          /\ doc[i].type = "Number"
          /\ ParseU64(doc[i].val) \notin DOMAIN Top.ref_map
          /\ \A j \in i..pos : doc[j].type = "Number"

\* C5: an element whose billing code passes the filter and whose rates list a
\* reference of the Ref map gets at least one row when process_in_network
\* reads its end, also when a rate has no negotiated_prices key
C5_FilterCompleteness ==
    [][\A s \in NetworkItems(doc) :
          (/\ status = "running"
           /\ pos + 1 = ValueEnd(doc, s)
           /\ Len(stack) >= 2 /\ stack[2].fn = "process_in_network"
           /\ doc[s].type = "StartObject"
           /\ ElementCodeMatches(doc, s)
           /\ ElementRefs(doc, s) \cap DOMAIN stack[2].ref_map # {})
          => DataRows(out') > DataRows(out)]_vars

\* C6: a run that reports the non-fatal error has read the whole file and has
\* processed in_network before it returned
C6_NonFatalContinues ==
    status = "nonfatal" =>
       /\ pos = Len(doc)
       /\ \E i \in 1..Len(diag) : diag[i] = <<"Processing in_network...">>

\* C7: every line of the standard output other than the header has 16 fields
C7_EmissionSchema ==
    LET ls == Lines(PrimaryStream)
    IN  \A i \in 1..Len(ls) : ls[i] \o Newline = HeaderLine \/ FieldCount(ls[i]) = 16

\* C8: the negotiated_rate of a collected Price is the text of the value the
\* price object gives under negotiated_rate, number or string, and null when it
\* gives none; a number under another key adds nothing
C8_NumbersAsText ==
    [][(Running("process_negotiated_prices") /\ NextEvent.type = "EndObject" /\ Top.cb = 1)
          => LET s == OpenOf(doc, pos + 1)
                 v == ValueOf(doc, s, "negotiated_rate")
                 given == IF v = 0 \/ doc[v].type \notin {"Number", "String"} \/ doc[v].val = <<>>
                          THEN NullStr ELSE doc[v].val
                 collected == stack'[Len(stack')].prices
             IN  collected[Len(collected)].negotiated_rate = given]_vars

\* C9: a negotiated_prices array with no price object gives the rate the single
\* Price with every field null, and an element whose rates all hold that Price
\* gets one row per (rate, reference, tuple), each with six null price fields
C9_EmptyPrices ==
    [][/\ EmptyPricesReturn => stack'[Len(stack')].rate.negotiated_prices = <<AllNullPrice>>
       /\ (/\ EmitStep
           /\ \A r \in 1..Len(Unwrap(Top.network.negotiated_rates)) :
                 Unwrap(Top.network.negotiated_rates)[r].negotiated_prices = <<AllNullPrice>>)
          => LET rates == Unwrap(Top.network.negotiated_rates)
                 rows == UNION {UNION {{<<r, i, j>> :
                                   j \in 1..Len(Top.ref_map[rates[r].provider_references[i]])} :
                                i \in 1..Len(rates[r].provider_references)} :
                         r \in 1..Len(rates)}
             IN  \E before \in {DataRows(out)}, after \in {DataLines(out')} :
                    /\ Len(after) - before = Cardinality(rows)
                    /\ \A l \in (before + 1)..Len(after) :
                          \E fs \in {Fields(after[l])} :
                             \A k \in (Len(fs) - 5)..Len(fs) : fs[k] = NullStr]_vars

\* C9: an element whose rate has an empty negotiated_prices array was written,
\* and its last row has six null price fields
C9_Witness ==
    /\ Running("process_in_network")
    /\ pos > 0 /\ doc[pos].type = "EndObject" /\ Top.cb = 0
    /\ DataRows(out) >= 2
    /\ LET fs == Fields(DataLines(out)[DataRows(out)])
       IN  \A k \in (Len(fs) - 5)..Len(fs) : fs[k] = NullStr
    /\ \E i \in OpenOf(doc, pos)..(pos - 2) :
          /\ doc[i].type = "ObjectKey" /\ doc[i].key = "negotiated_prices"
          /\ doc[i + 1].type = "StartArray" /\ doc[i + 2].type = "EndArray"

\* C10: after the first walk of provider_references the records of every NPI of
\* the Query carry, in list order, the pairings under which the NPI occurs in
\* the array, in source order; the records the Query began with keep their
\* places, and those of an NPI that does not occur are unchanged
C10_ProviderExpansion ==
    WalkedOnce =>
       /\ Len(query.providers) >= Len(query0.providers)
       /\ \A i \in 1..Len(query0.providers) : query.providers[i].npi = query0.providers[i].npi
       /\ \A n \in make_npi_set(query0) :
             LET recs == RecordsOf(query.providers, n)
                 pairs == Pairings(doc, n)
             IN  IF pairs = <<>>
                 THEN recs = RecordsOf(query0.providers, n)
                 ELSE [i \in 1..Len(recs) |-> PairingOf(recs[i])] = pairs

\* log_code has just returned
LogCodeReturned == stack # <<>> /\ Top.fn = "log_code"

\* equality of two texts up to the case of their ASCII letters
SameNoCase(a, b) == to_ascii_uppercase(a) = to_ascii_uppercase(b)

\* the rule under which a Code is marked
LoggingRule(code, c, t) ==
    \/ SameNoCase(code.value, c) /\ SameNoCase(code.code_type, t)
    \/ SameNoCase(code.value, c) /\ SameNoCase(code.code_type, <<"*">>)
    \/ SameNoCase(code.value, <<"*">>) /\ SameNoCase(code.code_type, <<"*">>)
    \/ SameNoCase(code.value, <<"*">>) /\ SameNoCase(code.code_type, t)

\* C11: log_code(c, t) sets recorded on exactly the Codes the rule names,
\* comparing without regard to case; every other Code, every other field and
\* the Providers stay as they were
C11_CodeLogging ==
    LogCodeReturned =>
       LET before == Top.before
       IN  /\ Len(query.codes) = Len(before.codes)
           /\ query.providers = before.providers
           /\ \A i \in 1..Len(before.codes) :
                 query.codes[i] =
                    [code_type |-> before.codes[i].code_type,
                     value |-> before.codes[i].value,
                     seen |-> before.codes[i].seen,
                     recorded |-> (before.codes[i].recorded
                                     \/ LoggingRule(before.codes[i], Top.c, Top.c_type))]

\* C11: a call marked a Code whose type differs in case from the argument, and
\* left another Code unmarked
C11_Witness ==
    /\ LogCodeReturned
    /\ \E i, j \in 1..Len(query.codes) :
          /\ query.codes[i].recorded /\ ~Top.before.codes[i].recorded
          /\ query.codes[i].code_type # Top.c_type
          /\ query.codes[i].code_type # <<"*">> /\ query.codes[i].value # <<"*">>
          /\ ~query.codes[j].recorded

\* C12: log_code applied again with the same arguments leaves the Query as the
\* first application left it
C12_LogCodeIdempotent ==
    LogCodeReturned =>
       /\ log_code(query, Top.c, Top.c_type) = query
       /\ log_code(log_code(query, Top.c, Top.c_type), Top.c, Top.c_type) = query

\* C12: a call of log_code changed the Query
C12_Witness ==
    /\ LogCodeReturned
    /\ query = log_code(Top.before, Top.c, Top.c_type)
    /\ query # Top.before

\* the Query holds the Code with type "*" and value "*"
IsWildcardCode(code) == code.code_type = <<"*">> /\ code.value = <<"*">>

\* C13: with the Code ("*", "*") in the Query, an element that has a billing
\* code and a rate listing a reference of the Ref map gets a row when
\* process_in_network reads its end, whatever the code and its type, and the
\* Code ("*", "*") is marked recorded
C13_Wildcards ==
    [][\A s \in NetworkItems(doc) :
          (/\ status = "running"
           /\ pos + 1 = ValueEnd(doc, s)
           /\ Len(stack) >= 2 /\ stack[2].fn = "process_in_network"
           /\ doc[s].type = "StartObject"
           /\ \E i \in 1..Len(query0.codes) : IsWildcardCode(query0.codes[i])
           /\ LET c == ValueOf(doc, s, "billing_code")
              IN  c # 0 /\ doc[c].type = "String" /\ doc[c].val # <<>>
           /\ ElementRefs(doc, s) \cap DOMAIN stack[2].ref_map # {})
          => /\ DataRows(out') > DataRows(out)
             /\ \A i \in 1..Len(query'.codes) :
                   IsWildcardCode(query'.codes[i]) => query'.codes[i].recorded]_vars

\* C14: a run on the file with the keys of one inner object in another order
\* writes the rows of the run on the file as it was and leaves the same
\* Provider records
C14_KeyOrder ==
    (run_no = 3 /\ status # "running") =>
        /\ out = out1
        /\ query.providers = query1.providers

\* C15: a run on the file with one unknown key added to an object, whatever its
\* value, writes the rows of the run on the file without it
C15_UnknownKeys ==
    (run_no = 4 /\ status # "running") => out = out1

C15_Witness ==
    /\ run_no = 4 /\ status = "ok"
    /\ DataRows(out) >= 2
    /\ \E i \in 3..Len(doc) - 1 :
          /\ doc[i].type = "ObjectKey" /\ doc[i].key = "zz"
          /\ doc[i + 1].type = "StartArray"
          /\ doc[i - 2].type = "ObjectKey" /\ doc[i - 2].key = "negotiated_type"
    /\ "zz" \in unsupported

\* a is the beginning of b
IsPrefixOf(a, b) == Len(a) <= Len(b) /\ SubSeq(b, 1, Len(a)) = a

\* C16: a second run on the same file, started from an equal Query, writes to
\* its sink exactly the bytes the first run wrote, in whatever order the Ref
\* map of either run gives its keys: what the second run has written so far
\* is at every moment the beginning of what the first run wrote, and all of it
\* when the run ends
C16_Determinism ==
    /\ (run_no = 5 /\ status # "running") => out = out1
    /\ run_no = 5 => IsPrefixOf(out, out1)

\* C16: the second run is in process_in_network with a Ref map of two keys
\* that come with the greater key first, and has written the rows of an
\* element that lists both keys
C16_Witness ==
    /\ run_no = 5
    /\ Running("process_in_network")
    /\ Top.ref_order = <<12, 11>>
    /\ Top.cb = 0 /\ pos > 0 /\ doc[pos].type = "EndObject"
    /\ DataRows(out) >= 4
    /\ query # query0

\* C17: once the end of the outer object has been read in a file that lacks
\* provider_references or in_network, the run has aborted: it is neither
\* running nor returned with success
C17_MissingArrays ==
    (doc # <<>> /\ pos = Len(doc) /\ ~HasBothArrays(doc)) => status = "panic"

C17_Witness ==
    /\ pos = Len(doc) /\ status = "panic"
    /\ TopKey(doc, 2, "provider_references") # 0
    /\ TopKey(doc, 2, "in_network") = 0
    /\ \E i \in 1..Len(query.providers) : IsSome(query.providers[i].group_id)

\* the driver opened the file again
ResetDone(dg) == \E i \in 1..Len(dg) : dg[i] = <<"Resetting...">>

\* C18: when process_provider_refs has walked its array and no Provider has a
\* group id, run returns success at once, with nothing written to the sink and
\* no reset made, in either order of the two arrays
C18_EarlyExit ==
    [][(/\ Running("process_provider_refs")
        /\ Len(stack') = 1
        /\ ~stat_providers(query'))
       => (status' = "ok" /\ out' = <<>> /\ ~ResetDone(diag'))]_vars

\* the header without its line end
HeaderText == SubSeq(HeaderLine, 1, Len(HeaderLine) - 1)

\* C19: whenever the sink is not empty its first line is the header, no other
\* line is the header, and a data row follows it
C19_HeaderOnce ==
    out # <<>> =>
        \E ls \in {Lines(out)} :
           /\ ls[1] = HeaderText
           /\ \A i \in 2..Len(ls) : ls[i] # HeaderText
           /\ Len(ls) >= 2

\* the times the driver opened the file again
Resets(dg) == Cardinality({i \in 1..Len(dg) : dg[i] = <<"Resetting...">>})

\* C20: a run opens the file again at most once, and only when the file has
\* in_network before provider_references
C20_ResetBounded ==
    /\ Resets(diag) <= 1
    /\ ResetDone(diag) =>
          /\ TopKey(doc, 2, "in_network") # 0
          /\ TopKey(doc, 2, "in_network") < TopKey(doc, 2, "provider_references")

C20_Witness ==
    /\ status = "ok"
    /\ Resets(diag) = 1
    /\ pos = Len(doc)
    /\ DataRows(out) >= 1

\* C23: when the first line of a query file that is not empty starts with white
\* space, no mode header having been read, read_input ends in a panic on that
\* line and returns no Query
C23_IndentedFirst ==
    [][(/\ status = "reading"
        /\ Top.f # <<>>
        /\ Top.state = "Undefined"
        /\ Head(Top.f) # <<>>
        /\ IsSpace(Head(Top.f)[1]))
       => status' = "panic"]_vars

\* the warning "Zero matches found for npi" was issued for the NPI
ZeroMatchWarned(npi) ==
    \E i \in 1..Len(diag) :
       /\ Len(diag[i]) = 2
       /\ diag[i][1] = "WARNING: Zero matches found for npi"
       /\ diag[i][2] = npi

\* C21: on a file without an error run succeeds whether or not the NPIs of the
\* query file are in it, and once main has called warn_not_recorded the
\* warning has been issued for exactly the NPIs none of whose Provider records
\* is recorded
C21_ZeroMatches ==
    /\ status = "panic" => Top.fn = "read_input"
    /\ status # "nonfatal"
    /\ status = "exit" =>
          \A i \in 1..Len(query0.providers) :
             ZeroMatchWarned(query0.providers[i].npi)
                <=> \A j \in 1..Len(query.providers) :
                       query.providers[j].npi = query0.providers[i].npi
                          => ~query.providers[j].recorded

C21_Witness ==
    /\ status = "exit"
    /\ DataRows(out) >= 1
    /\ ZeroMatchWarned(4)
    /\ ~ZeroMatchWarned(1)
    /\ \E i, j \in 1..Len(query.providers) :
          /\ query.providers[i].npi = 1 /\ query.providers[j].npi = 1
          /\ query.providers[i].recorded /\ ~query.providers[j].recorded

\* what a step of run and the functions it calls may do to the Query
QueryFrame(q, r) ==
    /\ Len(r.providers) >= Len(q.providers)
    /\ \A i \in 1..Len(q.providers) :
          /\ r.providers[i].npi = q.providers[i].npi
          /\ q.providers[i].recorded => r.providers[i].recorded
    /\ Len(r.codes) = Len(q.codes)
    /\ \A i \in 1..Len(q.codes) :
          /\ r.codes[i].code_type = q.codes[i].code_type
          /\ r.codes[i].value = q.codes[i].value
          /\ r.codes[i].seen = q.codes[i].seen
          /\ q.codes[i].recorded => r.codes[i].recorded

\* C22: a step of a run keeps the npi and the place of every Provider, only
\* adds Providers at the end, keeps the codes list with the code_type, value
\* and seen of every Code, never resets a recorded flag, and leaves the Query
\* as it is when it builds the NPI set, the Code set and the Ref map
C22_QueryFrame ==
    [][status = "running" =>
          /\ QueryFrame(query, query')
          /\ (Len(stack') = Len(stack) + 1
              /\ stack'[Len(stack')].fn \in {"process_provider_groups", "process_in_network"})
             => query' = query]_vars

C22_Witness ==
    /\ status = "ok"
    /\ Len(query.providers) > Len(query0.providers)
    /\ \E i \in 1..Len(query.providers) : query.providers[i].recorded
    /\ \E i \in 1..Len(query.codes) : query.codes[i].recorded
    /\ \E i \in 1..Len(query0.providers) :
          query.providers[i].tin_type # None /\ query.providers[i].group_id # None

\* the NPIs held by a Query
NpisOf(q) == {q.providers[i].npi : i \in 1..Len(q.providers)}

\* the in_network element that is being read when p events have been read:
\* its first event has been read and its last one has not
CurrentElements(d, p) == {s \in NetworkItems(d) : s <= p /\ p < ValueEnd(d, s)}

\* the number of events of these types from i to e
RECURSIVE EventCount(_, _, _, _)
EventCount(d, i, e, types) ==
    IF i > e THEN 0
    ELSE (IF d[i].type \in types THEN 1 ELSE 0) + EventCount(d, i + 1, e, types)

\* the characters of the strings and numbers from i to e, one more for each
RECURSIVE TextSize(_, _, _)
TextSize(d, i, e) ==
    IF i > e THEN 0
    ELSE (IF d[i].type \in {"String", "Number"} THEN Len(d[i].val) + 1 ELSE 0)
         + TextSize(d, i + 1, e)

\* the Rates the frames of a stack hold: those of the Network, and those
\* process_negotiated_rates has collected and the one it is filling
RECURSIVE HeldRates(_, _)
HeldRates(stk, i) ==
    IF i > Len(stk) THEN <<>>
    ELSE (CASE stk[i].fn = "process_in_network" ->
                 IF IsSome(stk[i].network.negotiated_rates)
                 THEN Unwrap(stk[i].network.negotiated_rates) ELSE <<>>
            [] stk[i].fn = "process_negotiated_rates" -> stk[i].rates \o <<stk[i].rate>>
            [] OTHER -> <<>>)
         \o HeldRates(stk, i + 1)

\* the Prices the frames of a stack hold: those of the Rates held, and those
\* process_negotiated_prices has collected and the one it is filling
HeldPrices(stk) ==
    LET rates == HeldRates(stk, 1)
    IN  Flatten([r \in 1..Len(rates) |-> rates[r].negotiated_prices])
          \o Flatten([i \in 1..Len(stk) |->
                        IF stk[i].fn = "process_negotiated_prices"
                        THEN stk[i].prices \o <<stk[i].price>> ELSE <<>>])

\* the Networks the frames of a stack hold
HeldNetworks(stk) ==
    {stk[i].network : i \in {j \in 1..Len(stk) : stk[j].fn = "process_in_network"}}

\* the scratch of the walkers of in_network is within what the events from s
\* to e give: no more Rates than objects, in a Rate no more references than
\* numbers and no more Prices than objects (one for an array without any), and
\* no text longer than all the text
ScratchWithin(stk, d, s, e) ==
    LET rates == HeldRates(stk, 1)
        prices == HeldPrices(stk)
        objects == EventCount(d, s, e, {"StartObject"})
        numbers == EventCount(d, s, e, {"Number"})
        text == TextSize(d, s, e)
    IN  /\ Len(rates) <= objects
        /\ \A r \in 1..Len(rates) :
              /\ Len(rates[r].provider_references) <= numbers
              /\ Len(rates[r].negotiated_prices) <= IF objects = 0 THEN 1 ELSE objects
        /\ \A i \in 1..Len(prices) : \A k \in PriceKeys :
              Len(prices[i][k]) <= Len(NullStr) + text
        /\ \A n \in HeldNetworks(stk) : \A k \in NetworkKeys : Len(n[k]) <= text

\* the scratch of the walkers of in_network is empty
ScratchEmpty(stk) ==
    /\ HeldRates(stk, 1) = <<>>
    /\ HeldPrices(stk) = <<>>
    /\ HeldNetworks(stk) \subseteq {NewNetwork}

\* the number of times the file gives an NPI of the Query q in an npi array
NpiOccurrences(d, q) ==
    Cardinality({i \in 1..Len(d) :
                   /\ d[i].type = "Number"
                   /\ \E a \in 2..(i - 1) :
                         /\ d[a].type = "StartArray"
                         /\ d[a - 1].type = "ObjectKey" /\ d[a - 1].key = "npi"
                         /\ \A j \in (a + 1)..i : d[j].type = "Number"
                   /\ ParseU64(d[i].val) \in NpisOf(q)})

\* the names of the keys of a file
KeyNames(d) == {d[i].key : i \in {j \in 1..Len(d) : d[j].type = "ObjectKey"}}

\* the strings of a file
StringValues(d) == {d[i].val : i \in {j \in 1..Len(d) : d[j].type = "String"}}

\* what the frames of a stack hold besides the scratch: the Meta of run holds
\* strings of the file under its four keys, and the code set and the Ref map
\* of process_in_network have no more entries than the Query q has records
MadeFromQuery(stk, d, q) ==
    \A i \in 1..Len(stk) :
       /\ stk[i].fn = "run" =>
             \A k \in MetaKeys : IsSome(stk[i].metadata[k]) =>
                Unwrap(stk[i].metadata[k]) \in StringValues(d)
       /\ stk[i].fn = "process_in_network" =>
             /\ Cardinality(stk[i].codeset) <= Len(q.codes)
             /\ Cardinality(DOMAIN stk[i].ref_map) <= Len(q.providers)
             /\ \A g \in DOMAIN stk[i].ref_map : Len(stk[i].ref_map[g]) <= Len(q.providers)

C25_MissingGroupId ==
    [][(/\ Running("process_provider_refs")
        /\ NextEvent.type = "EndObject"
        /\ Top.cb = 1
        /\ ValueOf(doc, OpenOf(doc, pos + 1), "provider_group_id") = 0)
       => /\ stack'[Len(stack')].non_fatal_err_seen
          /\ \A i \in 1..Len(query.providers) :
                query.providers[i].needs_gid => query'.providers[i].group_id = None]_vars

\* the position of the last event of the array under a key of the outer object
ArrayEnd(d, key) == ValueEnd(d, ValueOf(d, 1, key))

\* C26: the sink is written only after provider_references has been read to its
\* end; an in_network array met first is passed over with the Query and the
\* sink untouched and leaves the reset flag set; at the end of the outer object
\* the file is read again from its start; in_network is then handed to
\* process_in_network with a Ref map that lists every Provider the first pass
\* gave a group id
C26_SkipThenReset ==
    [][/\ out' # <<>> =>
             \/ ResetDone(diag')
             \/ /\ TopKey(doc, 2, "provider_references") # 0
                /\ pos' > ArrayEnd(doc, "provider_references")
       /\ (Running("skip_array") /\ Top.site = "run") =>
             /\ query' = query /\ out' = out
             /\ Len(stack') = 1 =>
                   /\ pos' = ArrayEnd(doc, "in_network")
                   /\ stack'[1].needs_reset
                   /\ ~ResetDone(diag')
       /\ (Running("run") /\ Top.needs_reset /\ pos + 1 = Len(doc) /\ HasBothArrays(doc)) =>
             /\ pos' = 0 /\ status' = "running" /\ ResetDone(diag')
             /\ out' = <<>>
       /\ (pos' < pos /\ run_no' = run_no) =>
             (Running("run") /\ Top.needs_reset /\ pos + 1 = Len(doc))
       /\ (Running("run") /\ ResetDone(diag) /\ Len(stack') = 2
             /\ stack'[2].fn = "process_in_network") =>
             /\ pos' = TopKey(doc, 2, "in_network")
             /\ pos' < TopKey(doc, 2, "provider_references")
             /\ stat_providers(query)
             /\ \A i \in 1..Len(query.providers) :
                   IsSome(query.providers[i].group_id) =>
                      \E g \in DOMAIN stack'[2].ref_map :
                         /\ g = Unwrap(query.providers[i].group_id)
                         /\ \E k \in 1..Len(stack'[2].ref_map[g]) :
                               stack'[2].ref_map[g][k] = ProviderTuple(query.providers[i])]_vars

\* C26: a run that passed over in_network, opened the file again and wrote rows
C26_Witness ==
    /\ status = "running"
    /\ ResetDone(diag)
    /\ Running("process_in_network")
    /\ DataRows(out) >= 1
    /\ TopKey(doc, 2, "in_network") < TopKey(doc, 2, "provider_references")

\* process_provider_refs has been called and has returned
ProviderRefsDone ==
    /\ status \in {"running", "ok"}
    /\ stack # <<>> /\ stack[1].fn = "run" /\ stack[1].providers_seen
    /\ \A k \in 1..Len(stack) : stack[k].fn \notin {"process_provider_refs", "process_provider_groups"}

\* the pairings the records of an NPI carry, empty records left out
PairingsHeld(providers, npi) ==
    {PairingOf(RecordsOf(providers, npi)[i]) : i \in 1..Len(RecordsOf(providers, npi))}
       \ {[group_id |-> None, tin_type |-> None, tin_value |-> None]}

\* C27: once provider_references has been processed, the records of a query NPI
\* carry the pairings under which the NPI occurs in the array, one record for
\* each, and no two records of the list agree on NPI, group id and tin
C27_OneSlotPerPairing ==
    ProviderRefsDone =>
       /\ \A i, j \in 1..Len(query.providers) :
             (/\ i # j
              /\ IsSome(query.providers[i].group_id)
              /\ query.providers[i].npi = query.providers[j].npi
              /\ PairingOf(query.providers[i]) = PairingOf(query.providers[j])) => FALSE
       /\ \A i \in 1..Len(query.providers) :
             PairingsHeld(query.providers, query.providers[i].npi)
                = {Pairings(doc, query.providers[i].npi)[k] :
                      k \in 1..Len(Pairings(doc, query.providers[i].npi))}

\* the NPIs of the provider group at g, in source order
GroupNpiList(d, g) ==
    LET v == ValueOf(d, g, "npi")
    IN  IF v = 0 \/ d[v].type # "StartArray" THEN <<>>
        ELSE [i \in 1..Len(Items(d, v)) |-> ParseU64(d[Items(d, v)[i]].val)]

\* the "npi,tin_type,tin_value" texts the file gives under a group id, in
\* source order
TuplesOf(d, gid) ==
    LET v == ValueOf(d, 1, "provider_references")
        elems == IF v = 0 THEN <<>> ELSE Items(d, v)
        ofGroup(g) == [i \in 1..Len(GroupNpiList(d, g)) |->
                          FormatU64(GroupNpiList(d, g)[i]) \o Comma
                             \o GroupTin(d, g, "type") \o Comma \o GroupTin(d, g, "value")]
        ofElem(s) == IF d[s].type # "StartObject" \/ ElementGid(d, s) # Some(gid) THEN <<>>
                     ELSE Flatten([i \in 1..Len(ElementGroups(d, s)) |->
                                      ofGroup(ElementGroups(d, s)[i])])
    IN  Flatten([i \in 1..Len(elems) |-> ofElem(elems[i])])

\* two texts of a list stand in the order in which a second list gives them
InOrderOf(list, a, b, source) ==
    \E i, j \in 1..Len(source) :
       /\ source[i] = list[a] /\ source[j] = list[b]
       /\ i < j \/ (i = j /\ list[a] = list[b])

\* C28: under every group id, the texts of the Ref map that process_in_network
\* works with stand in the order in which provider_references gives them
C28_TupleOrder ==
    \A k \in 1..Len(stack) :
       stack[k].fn = "process_in_network" =>
          \A g \in DOMAIN stack[k].ref_map :
             \A a, b \in 1..Len(stack[k].ref_map[g]) :
                a < b => InOrderOf(stack[k].ref_map[g], a, b, TuplesOf(doc, g))

\* the texts of the Provider records of a list that carry a group id and both
\* tin fields, in list order
ListTuples(providers, gid) ==
    LET has(p) == HasAllFields(p) /\ Unwrap(p.group_id) = gid
        recs == SelectSeq(providers, has)
    IN  [i \in 1..Len(recs) |-> ProviderTuple(recs[i])]

\* the group ids of the records that carry all three fields
ListGids(providers) ==
    {Unwrap(providers[i].group_id) : i \in {j \in 1..Len(providers) : HasAllFields(providers[j])}}

\* C28, as amended: under every group id, the texts of the Ref map stand in the
\* order of the Provider records of the Query's list, and the rows written for
\* an element follow that order
C28_ListOrder ==
    [][/\ \A k \in 1..Len(stack') :
             stack'[k].fn = "process_in_network" =>
                /\ DOMAIN stack'[k].ref_map = ListGids(query'.providers)
                /\ \A g \in DOMAIN stack'[k].ref_map :
                      stack'[k].ref_map[g] = ListTuples(query'.providers, g)
       /\ EmitStep =>
             out' = out \o (IF Top.header_written THEN <<>> ELSE HeaderLine)
                        \o ExpectedRows(Top.network,
                                        [g \in ListGids(query.providers) |->
                                            ListTuples(query.providers, g)])]_vars

\* C28: rows were written for a group whose texts stand in the Ref map in
\* another order than in the file
C28_Witness ==
    /\ Running("process_in_network")
    /\ DataRows(out) >= 2
    /\ \E g \in DOMAIN Top.ref_map :
          /\ Len(Top.ref_map[g]) = 2
          /\ Len(TuplesOf(doc, g)) = 2
          /\ Top.ref_map[g][1] = TuplesOf(doc, g)[2]
          /\ Top.ref_map[g][2] = TuplesOf(doc, g)[1]
          /\ Top.ref_map[g][1] # Top.ref_map[g][2]
          /\ \E i, j \in 1..Len(DataLines(out)) :
                /\ i < j
                /\ Fields(DataLines(out)[i])[1] \o Comma \o Fields(DataLines(out)[i])[2]
                      \o Comma \o Fields(DataLines(out)[i])[3] = Top.ref_map[g][1]
                /\ Fields(DataLines(out)[j])[1] \o Comma \o Fields(DataLines(out)[j])[2]
                      \o Comma \o Fields(DataLines(out)[j])[3] = Top.ref_map[g][2]

\* the text a price object gives under a key, null when the key is absent or
\* its value is null or empty; the strings of an array each followed by a space
GivenField(d, s, key) ==
    LET v == ValueOf(d, s, key)
        strings == IF v # 0 /\ d[v].type = "StartArray"
                   THEN Flatten([i \in 1..Len(Items(d, v)) |->
                                    IF d[Items(d, v)[i]].type = "String"
                                    THEN d[Items(d, v)[i]].val \o <<" ">> ELSE <<>>])
                   ELSE <<>>
    IN  IF v = 0 THEN NullStr
        ELSE IF d[v].type = "StartArray" THEN DefaultIfEmpty(strings)
        ELSE IF d[v].type \in {"String", "Number"} THEN DefaultIfEmpty(d[v].val)
        ELSE NullStr

\* the Prices a negotiated_prices array gives, one for each of its objects
GivenPrices(d, a) ==
    [i \in 1..Len(Items(d, a)) |-> [k \in PriceKeys |-> GivenField(d, Items(d, a)[i], k)]]

\* process_negotiated_prices reads the end of its array
PricesReturn ==
    /\ Running("process_negotiated_prices")
    /\ NextEvent.type = "EndArray"
    /\ Top.sq = 1

\* C29: for an array with at least one price object, process_negotiated_prices
\* hands back one Price for each object, in source order, every field with the
\* text the object gives under its key, null where it gives none
C29_PriceCollection ==
    [][(PricesReturn /\ Items(doc, OpenOf(doc, pos + 1)) # <<>>)
          => stack'[Len(stack')].rate.negotiated_prices
                = GivenPrices(doc, OpenOf(doc, pos + 1))]_vars

\* the provider group at g gives no tin field of that name: the key is absent
\* or its value is null
TinFieldMissing(d, g, field) ==
    LET t == ValueOf(d, g, "tin")
    IN  \/ t = 0
        \/ d[t].type # "StartObject"
        \/ ValueOf(d, t, field) = 0
        \/ d[ValueOf(d, t, field)].type = "Null"

\* process_provider_groups reads the end of a provider group
GroupEnd ==
    /\ Running("process_provider_groups")
    /\ NextEvent.type = "EndObject"
    /\ Top.cb = 1

\* C30: at the end of a provider group every Provider matched in it has its
\* needs_tin flag cleared and holds "null" for a tin field the group does not
\* give, and the scratch pair is empty for the next group
C30_MissingTin ==
    [][GroupEnd =>
          /\ \A i \in 1..Len(query.providers) :
                query.providers[i].needs_tin =>
                   /\ ~query'.providers[i].needs_tin
                   /\ TinFieldMissing(doc, OpenOf(doc, pos + 1), "type") =>
                         query'.providers[i].tin_type = Some(NullStr)
                   /\ TinFieldMissing(doc, OpenOf(doc, pos + 1), "value") =>
                         query'.providers[i].tin_value = Some(NullStr)
          /\ stack'[Len(stack')].t_type = None
          /\ stack'[Len(stack')].t_value = None]_vars

\* C30: a group without a tin value has ended after a group that gave one, and
\* its Provider holds "null" for the value
C30_Witness ==
    /\ Running("process_provider_groups")
    /\ pos > 0 /\ doc[pos].type = "EndObject" /\ Top.cb = 0
    /\ TinFieldMissing(doc, OpenOf(doc, pos), "value")
    /\ ~TinFieldMissing(doc, OpenOf(doc, pos), "type")
    /\ \E i, j \in 1..Len(query.providers) :
          /\ query.providers[i].tin_value = Some(NullStr)
          /\ IsSome(query.providers[i].tin_type)
          /\ query.providers[i].tin_type # Some(NullStr)
          /\ ~query.providers[i].needs_tin
          /\ IsSome(query.providers[j].tin_value)
          /\ query.providers[j].tin_value # Some(NullStr)
          /\ query.providers[j].tin_type = Some(NullStr)

----------------------------------------------------------------------------
(* Runs that meet the end of the input inside a walker: files whose values  *)
(* are not of the documented shapes, and the loop of each function taken    *)
(* again and again                                                          *)

\* a rate whose negotiated_prices is null
RT_null == SO \o Refs(N(<<"1","1">>)) \o K("negotiated_prices") \o NUL \o EO

\* an element with that rate
EL_null == SO \o Code(<<"c","1">>) \o Rates(RT_null) \o EO

\* the members of the outer object of the files below
EofBodies ==
    {K("in_network") \o NUL,
     K("in_network") \o NUL \o K("provider_references") \o SA \o PR_a \o EA,
     K("provider_references") \o SA \o PR_a \o EA \o K("in_network") \o NUL,
     K("provider_references") \o SA \o PR_a \o EA \o K("in_network") \o SA \o EL_null \o EA,
     K("provider_references") \o NUL \o K("in_network") \o SA \o EL_1 \o EA,
     K("provider_references") \o SA \o PR_d \o EA \o K("in_network") \o SA \o EL_4 \o EL_5 \o EA,
     K("in_network") \o SA \o EL_5 \o EA \o K("provider_references") \o SA \o PR_d \o EA,
     K("note") \o SA \o EA \o K("in_network") \o SA \o EL_5 \o EA
        \o K("provider_references") \o SA \o PR_d \o EA}

EofFiles == {SO \o pre \o body \o EO : pre \in {<<>>, Metadata}, body \in EofBodies}

InitEof ==
    /\ doc \in EofFiles
    /\ query0 \in Queries
    /\ query = query0
    /\ pos = 0
    /\ stack = <<RunFrame>>
    /\ out = <<>>
    /\ printed = <<>>
    /\ diag = <<>>
    /\ unsupported = {}
    /\ status = "running"
    /\ run_no = 1
    /\ out1 = <<>>
    /\ status1 = "running"
    /\ query1 = query0

NextEof ==
    \/ run
    \/ process_provider_refs
    \/ process_provider_groups
    \/ process_in_network
    \/ process_negotiated_rates
    \/ process_negotiated_prices
    \/ bypass_key
    \/ ff_to_next_obj
    \/ skip_array

\* every loop takes its next iteration: the program is one thread that never
\* waits
EofSpec == InitEof /\ [][NextEof]_vars /\ WF_vars(NextEof)

\* a skip utility is about to read the end of the input
SkipAtEof ==
    /\ status = "running"
    /\ stack # <<>>
    /\ Top.fn \in {"bypass_key", "ff_to_next_obj", "skip_array"}
    /\ pos = Len(doc)

\* C31: when bypass_key, ff_to_next_obj or skip_array is given the end of the
\* input before the value it skips is closed, the run stops with a fatal error
C31_SkipOnEof == SkipAtEof ~> (status = "panic")

\* process_negotiated_prices is about to read the end of the input
PricesAtEof == Running("process_negotiated_prices") /\ pos = Len(doc)

\* C32: when process_negotiated_prices is given the end of the input while it
\* waits for the end of its array, the run stops with a fatal error
C32_PricesOnEof == PricesAtEof ~> (status = "panic")

\* the places of the diagnostic stream that report a key as unsupported
ReportsOf(dg, key) ==
    {i \in 1..Len(dg) : Len(dg[i]) = 3 /\ dg[i][1] = "Unsupported key" /\ dg[i][2] = key}

\* a walker hands the value of a key to bypass_key
BypassStarts ==
    /\ status = "running"
    /\ NextEvent.type = "ObjectKey"
    /\ Len(stack') = Len(stack) + 1
    /\ stack'[Len(stack')].fn = "bypass_key"

\* bypass_key, with the utility it called, returns to the walker
BypassReturns ==
    /\ status = "running" /\ status' = "running"
    /\ Len(stack') < Len(stack)
    /\ \/ Top.fn = "bypass_key"
       \/ Top.fn \in {"ff_to_next_obj", "skip_array"} /\ Top.site = "bypass_key"

\* C33: a key the program does not handle is reported when it is not yet in the
\* set and not reported when it is, in every walker and on both passes; it is
\* in the set afterwards; no key is reported twice; and the bypass ends on the
\* last event of the value of a key of the set
C33_UnsupportedOnce ==
    [][/\ BypassStarts =>
             /\ NextEvent.key \in unsupported => diag' = diag
             /\ NextEvent.key \notin unsupported =>
                   /\ Len(diag') = Len(diag) + 1
                   /\ ReportsOf(diag', NextEvent.key) = {Len(diag')}
             /\ unsupported' = unsupported \cup {NextEvent.key}
       /\ \A k \in unsupported' : Cardinality(ReportsOf(diag', k)) <= 1
       /\ BypassReturns =>
             /\ doc[OpenOf(doc, pos') - 1].type = "ObjectKey"
             /\ doc[OpenOf(doc, pos') - 1].key \in unsupported]_vars

\* C33: on the second pass of a run that reset, a key reported on the first pass
\* is met again and its value is handed to bypass_key with no new report
C33_Witness ==
    /\ Running("bypass_key")
    /\ doc[pos].type = "ObjectKey"
    /\ \E r \in 1..Len(diag) :
          /\ diag[r] = <<"Resetting...">>
          /\ \E i \in ReportsOf(diag, doc[pos].key) : i < r
    /\ Cardinality(ReportsOf(diag, doc[pos].key)) = 1
    /\ \E i \in ReportsOf(diag, doc[pos].key) : diag[i][3] = "top level"
    /\ Len(stack) = 4 /\ stack[3].fn = "process_provider_groups"

\* process_negotiated_rates reads the end of a rate object that keeps a reference
RateKept ==
    /\ Running("process_negotiated_rates")
    /\ NextEvent.type = "EndObject"
    /\ Top.cb = 1
    /\ Len(Top.rate.provider_references) # 0

\* the number of Prices the negotiated_prices array of the rate object at s
\* stands for: none without the key, the single null Price for an empty array
OwnPriceCount(d, s) ==
    LET v == ValueOf(d, s, "negotiated_prices")
    IN  IF v = 0 \/ d[v].type # "StartArray" THEN 0
        ELSE IF Items(d, v) = <<>> THEN 1 ELSE Len(Items(d, v))

\* the price objects of the negotiated_prices array of the rate object at s
OwnPriceObjects(d, s) ==
    LET v == ValueOf(d, s, "negotiated_prices")
    IN  IF v = 0 \/ d[v].type # "StartArray" THEN <<>> ELSE Items(d, v)

\* C34: the Rate that process_negotiated_rates keeps for a rate object holds
\* the Prices of the negotiated_prices array of that object and no other: as
\* many as the array stands for, each with the type and the class its own
\* price object gives
C34_OwnPrices ==
    [][RateKept =>
          \E s \in {OpenOf(doc, pos + 1)} :
             \E kept \in {stack'[Len(stack')].rates[Len(stack'[Len(stack')].rates)]} :
                /\ Len(kept.negotiated_prices) = OwnPriceCount(doc, s)
                /\ \A i \in 1..Len(OwnPriceObjects(doc, s)) :
                      \A k \in {"negotiated_type", "billing_class"} :
                         kept.negotiated_prices[i][k]
                            = GivenField(doc, OwnPriceObjects(doc, s)[i], k)]_vars

\* C35: once provider_references has been processed, every Provider record
\* with a group id carries a pairing of the file: the provider_group_id of an
\* element that lists its NPI in a provider group, with the tin of that group
C35_GroupAssociation ==
    ProviderRefsDone =>
       \A i \in 1..Len(query.providers) :
          IsSome(query.providers[i].group_id) =>
             \E k \in 1..Len(Pairings(doc, query.providers[i].npi)) :
                Pairings(doc, query.providers[i].npi)[k] = PairingOf(query.providers[i])

\* C36: when the run on the file with in_network first has returned, its
\* Provider list equals the list the run on the file with provider_references
\* first left, and after the reset no Provider record was appended
C36_ResetQuery ==
    [][/\ (run_no' = 2 /\ status' = "ok" /\ status1' = "ok") =>
             query'.providers = query1'.providers
       /\ (run_no = 2 /\ run_no' = 2 /\ ResetDone(diag)) =>
             /\ Len(query'.providers) = Len(query.providers)
             /\ \A k \in 1..Len(stack') : stack'[k].fn # "process_provider_refs"]_vars

\* the start of a row written for a Provider record: its tuple and its group id
RowStart(p) == ProviderTuple(p) \o Comma \o FormatU64(Unwrap(p.group_id)) \o Comma

\* some row of the sink was written for the pairing of this Provider record
HasRow(o, p) ==
    /\ HasAllFields(p)
    /\ \E l \in 1..Len(DataLines(o)) :
          /\ Len(DataLines(o)[l]) >= Len(RowStart(p))
          /\ SubSeq(DataLines(o)[l], 1, Len(RowStart(p))) = RowStart(p)

\* C37: when a run has returned, a Provider record is marked recorded exactly
\* when the sink holds a row with its npi, tin type, tin value and group id
C37_RecordedExact ==
    status = "ok" =>
       \A i \in 1..Len(query.providers) :
          query.providers[i].recorded <=> HasRow(out, query.providers[i])

\* the value of a Code lets an element with this billing code pass the filter
LetsPass(code, billing_code) ==
    to_ascii_uppercase(code.value) = billing_code \/ code.value = <<"*">>

\* C38: when rows are written for an element, a Code of the Query whose value
\* let the element pass the filter is marked recorded once the element is
\* written
C38_EmittedIsLogged ==
    [][(EmitStep /\ DataRows(out') > DataRows(out)) =>
          \E i \in 1..Len(query'.codes) :
             /\ LetsPass(query'.codes[i], Top.network.billing_code)
             /\ query'.codes[i].recorded]_vars

\* process_in_network stands between two elements of its array
BetweenElements == Running("process_in_network") /\ Top.cb = 0

\* the reference numbers the rate objects of the element at s give
OwnReferences(d, s) ==
    LET v == ValueOf(d, s, "negotiated_rates")
    IN  IF v = 0 \/ d[v].type # "StartArray" THEN {}
        ELSE UNION {LET r == ValueOf(d, Items(d, v)[i], "provider_references")
                    IN  IF r = 0 \/ d[r].type # "StartArray" THEN {}
                        ELSE {ParseU64(d[Items(d, r)[j]].val) : j \in 1..Len(Items(d, r))} :
                    i \in 1..Len(Items(d, v))}

\* the number of rate objects of the element at s
OwnRateCount(d, s) ==
    LET v == ValueOf(d, s, "negotiated_rates")
    IN  IF v = 0 \/ d[v].type # "StartArray" THEN 0 ELSE Len(Items(d, v))

\* C39: between two elements of in_network the scratch Network is empty, all
\* six strings and the rates; and the Network an element is written from holds
\* what its own element gives: each string the text under its key (the billing
\* code in upper case), no more Rates than the element has rate objects, and
\* no reference its rate objects do not give
C39_ScratchIsolation ==
    [][/\ BetweenElements =>
             /\ \A k \in NetworkKeys : Top.network[k] = <<>>
             /\ IsNone(Top.network.negotiated_rates)
       /\ EmitStep =>
             \E s \in {OpenOf(doc, pos + 1)} :
                /\ \A k \in NetworkKeys \ {"billing_code"} :
                      DefaultIfEmpty(Top.network[k]) = GivenField(doc, s, k)
                /\ Top.network.billing_code
                      = to_ascii_uppercase(GivenField(doc, s, "billing_code"))
                /\ Len(Unwrap(Top.network.negotiated_rates)) <= OwnRateCount(doc, s)
                /\ \A r \in 1..Len(Unwrap(Top.network.negotiated_rates)) :
                      \A i \in 1..Len(Unwrap(Top.network.negotiated_rates)[r].provider_references) :
                         Unwrap(Top.network.negotiated_rates)[r].provider_references[i]
                            \in OwnReferences(doc, s)]_vars

\* C39: rows of an earlier element are in the sink, and process_in_network has
\* just left an element that named a billing code of the Query and was dropped
\* for having no rate with a known reference
C39_Witness ==
    /\ BetweenElements
    /\ pos > 0 /\ doc[pos].type = "EndObject"
    /\ DataRows(out) > 0
    /\ GivenField(doc, OpenOf(doc, pos), "name") = <<"k">>
    /\ GivenField(doc, OpenOf(doc, pos), "billing_code") = <<"c","1">>
    /\ OwnReferences(doc, OpenOf(doc, pos)) = {99}

----------------------------------------------------------------------------
(* run on the files that hold both arrays, in either order, every iteration of *)
(* a loop followed by the next one                                             *)

\* the files of Files with both arrays, and each with the two arrays swapped
TermFiles ==
    {d \in Files : HasBothArrays(d)} \cup {SwapArrays(d) : d \in {x \in Files : HasBothArrays(x)}}

InitTerm ==
    /\ doc \in TermFiles
    /\ query0 \in Queries
    /\ query = query0
    /\ pos = 0
    /\ stack = <<RunFrame>>
    /\ out = <<>>
    /\ printed = <<>>
    /\ diag = <<>>
    /\ unsupported = {}
    /\ status = "running"
    /\ run_no = 1
    /\ out1 = <<>>
    /\ status1 = "running"
    /\ query1 = query0

TermSpec == InitTerm /\ [][NextEof]_vars /\ WF_vars(NextEof)

\* the function fn returns in this step: its frame is gone and none was pushed
Returns(fn) ==
    /\ Running(fn)
    /\ status' # "panic"
    /\ Len(stack') <= Len(stack)
    /\ (Len(stack') < Len(stack) \/ stack'[Len(stack)].fn # fn)

\* the event read last closes an array that is the value of this key
ClosesArrayOf(key) ==
    /\ doc[pos'].type = "EndArray"
    /\ doc[OpenOf(doc, pos') - 1].type = "ObjectKey"
    /\ doc[OpenOf(doc, pos') - 1].key = key

\* C40: on a file with both arrays, in either order, run returns in the end,
\* having opened the file again at most once; and each processor of an array
\* returns on the event that closes the array it was called for, the two that
\* run calls (and skip_array, which run calls in place of process_in_network)
\* leaving run at depth 1
C40_Termination ==
    /\ [][/\ \A key \in {"provider_groups", "negotiated_rates", "negotiated_prices"} :
                Returns("process_" \o key) => ClosesArrayOf(key)
          /\ Returns("process_provider_refs") =>
                pos' = ArrayEnd(doc, "provider_references") /\ stack'[1].depth = 1
          /\ (Returns("process_in_network") \/ (Returns("skip_array") /\ Len(stack) = 2)) =>
                pos' = ArrayEnd(doc, "in_network") /\ stack'[1].depth = 1]_vars
    /\ [](Resets(diag) <= 1)
    /\ ((status = "running") ~> (status \in {"ok", "nonfatal"}))

\* C40: run has returned success on a file with in_network first, after it
\* opened the file again and process_in_network wrote rows on the second pass
C40_Witness ==
    /\ status = "ok"
    /\ TopKey(doc, 2, "in_network") < TopKey(doc, 2, "provider_references")
    /\ Resets(diag) = 1
    /\ DataRows(out) > 0
    /\ pos = Len(doc)
    /\ stack[1].depth = 0
====
